---- MODULE Spec2Model ----
(***************************************************************************)
(* The real-time middle tier of the job-search voice agent: one session,   *)
(* its relay connection (rtmt.py), its UI state (ui_state.py) and its      *)
(* business-logic object (job_search.py), as a state machine.              *)
(*                                                                         *)
(* A frame is a record.  "json" says how json.loads sees the text:         *)
(* "object" (a dict), "scalar" (valid JSON that is no dict, so .get        *)
(* raises AttributeError) or "bad" (JSONDecodeError).  "enc" says whether   *)
(* the text is the text that arrived ("raw") or a json.dumps of the         *)
(* rewritten message ("dumps").                                             *)
(***************************************************************************)
EXTENDS Naturals, Sequences, FiniteSets, TLC

None == "None"
Absent == "~"

(* ------------------------------------------------------------------ *)
(* Message types (rtmt.py, class MessageType)                         *)
(* ------------------------------------------------------------------ *)
SESSION_CREATED == "session.created"
SESSION_UPDATE == "session.update"
RESPONSE_OUTPUT_ADDED == "response.output_item.added"
CONVERSATION_ITEM_CREATED == "conversation.item.created"
FUNCTION_CALL_ARGS_DELTA == "response.function_call_arguments.delta"
FUNCTION_CALL_ARGS_DONE == "response.function_call_arguments.done"
RESPONSE_OUTPUT_DONE == "response.output_item.done"
RESPONSE_DONE == "response.done"
INPUT_AUDIO_BUFFER_APPEND == "input_audio_buffer.append"
RESPONSE_CREATE == "response.create"
CONVERSATION_ITEM_CREATE == "conversation.item.create"
FUNCTION_CALL_OUTPUT == "function_call_output"
FUNCTION_CALL == "function_call"
UI_RESET_STATE == "reset_state"
UI_MANUAL_SEARCH == "manual_search"
UI_SELECT_JOB == "select_job"
UI_VIEW_SEARCH_RESULTS == "view_search_results"

(* ------------------------------------------------------------------ *)
(* Server configuration and tool registry                             *)
(* ------------------------------------------------------------------ *)

\* RTMTConfig as create_app builds it: only the system message and the
\* voice are set, temperature, max_tokens and disable_audio stay None.
config ==
  [ system_message |-> "SYSTEM_MESSAGE",
    temperature    |-> None,
    max_tokens     |-> None,
    disable_audio  |-> None,
    voice_choice   |-> "echo" ]

\* TOOL_DEFINITIONS in insertion order: tool name and the name of its schema.
tool_definitions ==
  << [name |-> "search_jobs",         schema |-> "schema:search_jobs"],
     [name |-> "display_job_details", schema |-> "schema:display_job"] >>

ToolNames == { tool_definitions[i].name : i \in 1..Len(tool_definitions) }

\* [td.schema for td in self.tool_definitions.values()]
ToolSchemas == [ i \in 1..Len(tool_definitions) |-> tool_definitions[i].schema ]

\* "auto" if self.tool_definitions else "none"
ToolChoice == IF Len(tool_definitions) > 0 THEN "auto" ELSE "none"

(* ------------------------------------------------------------------ *)
(* Frames                                                             *)
(* ------------------------------------------------------------------ *)

\* The scalar fields of a session object that the relay may set.
SessionFields ==
  { "instructions", "temperature", "max_response_output_tokens",
    "disable_audio", "voice", "tool_choice", "other" }

\* A session object: kind is "absent" (no "session" key), "object" (a dict)
\* or "null" (a value that is no dict); f gives each scalar field's value
\* (Absent when the key is missing); tools is the "tools" list when
\* has_tools.
NoSession ==
  [ kind |-> "absent", f |-> [k \in SessionFields |-> Absent],
    has_tools |-> FALSE, tools |-> << >> ]

Frame0 ==
  [ json |-> "object", enc |-> "raw", type |-> Absent, item_type |-> Absent,
    call_id |-> Absent, prev |-> Absent, name |-> Absent, args |-> Absent,
    api |-> Absent, has_output |-> FALSE, output |-> << >>, text |-> Absent,
    session |-> NoSession, data |-> Absent ]

NoFrame == [Frame0 EXCEPT !.json = "none"]

CallIds == {"call_1", "call_2"}
\* A call id value that is no hashable string (a JSON list or object).
Unhashable == "<unhashable>"
PrevIds == {"item_1", "item_2"}


(* ------------------------------------------------------------------ *)
(* UI state (ui_state.py)                                             *)
(* ------------------------------------------------------------------ *)
MAX_RESULTS == 5

Min(a, b) == IF a < b THEN a ELSE b

\* UIState.__init__: results is None (has_results = FALSE) until a search.
InitialUIState ==
  [ query |-> None, country |-> None, has_results |-> FALSE, results |-> << >>,
    total_count |-> 0, current_job |-> None, view_mode |-> "search" ]

\* update_search that stores the whole result list.
update_search_NoTruncate(ui, query, country, results, total_count) ==
  [ ui EXCEPT !.query = query, !.country = country, !.has_results = TRUE,
              !.results = results,
              !.total_count = total_count, !.view_mode = "search" ]

update_search(ui, query, country, results, total_count) ==
  [ ui EXCEPT !.query = query, !.country = country, !.has_results = TRUE,
              !.results = SubSeq(results, 1, Min(Len(results), MAX_RESULTS)),
              !.total_count = total_count, !.view_mode = "search" ]

update_job_detail(ui, job) ==
  [ ui EXCEPT !.current_job = job, !.view_mode = "detail" ]

\* reset_view that also drops the search results.
reset_view_ClearSearch(ui) ==
  [ ui EXCEPT !.view_mode = "search", !.current_job = None,
              !.has_results = FALSE, !.results = << >>, !.total_count = 0 ]

reset_view(ui) ==
  [ ui EXCEPT !.view_mode = "search", !.current_job = None ]

ui_reset_state(ui) ==
  [ ui EXCEPT !.query = None, !.country = None, !.has_results = FALSE,
              !.results = << >>, !.total_count = 0,
              !.current_job = None, !.view_mode = "search" ]

(* ------------------------------------------------------------------ *)
(* Business logic (job_search.py).  The careers API is the            *)
(* environment: a request either fails ("fail") or answers ("ok").    *)
(* ------------------------------------------------------------------ *)
InitialJobSearch ==
  [ current_job |-> None, search_query |-> None, search_country |-> None ]

\* What the careers API answers to a search and to a job-detail request.
ApiJobs == << "job_1", "job_2", "job_3", "job_4", "job_5", "job_6" >>
ApiJobDetail == "job_detail"

\* The empty dict: what data.get("operationResult", {}).get("result", {})
\* gives for an answer without a result.
EmptyDict == "{}"

\* Python truthiness of a value that is None, a string or a dict.
Bool(v) == v \notin {None, Absent, "", EmptyDict}

\* The answers of the API: "ok" is an answer with a result, "empty" one
\* without (no job for a search, no "result" for a job), anything else a
\* request that fails with a RequestException.
ApiAnswers == {"ok", "empty"}
SearchAnswer(api) ==
  IF api = "ok" THEN [jobs |-> ApiJobs, total |-> Len(ApiJobs), text |-> "search_data"]
  ELSE [jobs |-> << >>, total |-> 0, text |-> "search_data_no_jobs"]
JobAnswer(api) == IF api = "ok" THEN ApiJobDetail ELSE EmptyDict

\* search_jobs that shows an empty result list when the request failed.
search_jobs_UpdateOnError(js, ui, query, country, api) ==
  LET js1 == [js EXCEPT !.search_query = query, !.search_country = country]
      a == SearchAnswer(api)
  IN  [ js |-> js1, ui |-> update_search(ui, query, country, a.jobs, a.total),
        updates |-> 1, raised |-> FALSE,
        text |-> IF api \in ApiAnswers THEN a.text ELSE "error:api_request_failed" ]

\* JobSearchTool.search_jobs: [js, ui, text, updates, raised].  updates is
\* the number of update_search calls; JobAPIError is the only exception
\* _make_api_request raises, and it is caught.
search_jobs(js, ui, query, country, api) ==
  LET js1 == [js EXCEPT !.search_query = query, !.search_country = country]
      a == SearchAnswer(api)
  IN  IF api \in ApiAnswers
      THEN [ js |-> js1,
             ui |-> update_search(ui, query, country, a.jobs, a.total),
             text |-> a.text, updates |-> 1, raised |-> FALSE ]
      ELSE [ js |-> js1, ui |-> ui, text |-> "error:api_request_failed",
             updates |-> 0, raised |-> FALSE ]

\* JobSearchTool.display_job
display_job(js, ui, job_id, api) ==
  IF api \in ApiAnswers
  THEN [ js |-> [js EXCEPT !.current_job = JobAnswer(api)],
         ui |-> update_job_detail(ui, JobAnswer(api)),
         text |-> JobAnswer(api) ]
  ELSE [ js |-> js, ui |-> ui, text |-> "error:api_request_failed" ]

\* JobSearchTool.find_and_display_job, for a title that matches a stored
\* result above SIMILARITY_THRESHOLD.
find_and_display_job(js, ui, title, api) ==
  IF ~ui.has_results \/ Len(ui.results) = 0
  THEN [ js |-> js, ui |-> ui, text |-> "error:no_active_search_results" ]
  ELSE display_job(js, ui, ui.results[1], api)

\* JobSearchTool.reset_state
js_reset_state(js) ==
  [ js EXCEPT !.current_job = None, !.search_query = None,
              !.search_country = None ]

(* ------------------------------------------------------------------ *)
(* Session (app.py)                                                   *)
(* ------------------------------------------------------------------ *)

\* The UI state's own reset_state, without the link to the business logic.
reset_all_state_UiOnly(js, ui) ==
  [ js |-> js, ui |-> ui_reset_state(ui) ]

\* SessionState.__post_init__ chains the two resets: reset_all_state.
reset_all_state(js, ui) ==
  [ js |-> js_reset_state(js), ui |-> ui_reset_state(ui) ]

\* SessionState.handle_ui_message: [js, ui].  data is Absent (no "data"
\* key, or one without the wanted field), "nonobject" (a "data" value that
\* is no dict: .get raises and the except clause swallows it) or "full".
handle_ui_message(msg, js, ui) ==
  CASE msg.type = UI_RESET_STATE -> reset_all_state(js, ui)
    [] msg.type = UI_MANUAL_SEARCH ->
         IF msg.data = "full"
         THEN LET r == search_jobs(js, ui, "query", None, msg.api)
              IN  [js |-> r.js, ui |-> r.ui]
         ELSE [js |-> js, ui |-> ui]
    [] msg.type = UI_SELECT_JOB ->
         IF msg.data = "full"
         THEN LET r == display_job(js, ui, "job_1", msg.api)
              IN  [js |-> r.js, ui |-> r.ui]
         ELSE [js |-> js, ui |-> ui]
    [] msg.type = UI_VIEW_SEARCH_RESULTS -> [js |-> js, ui |-> reset_view(ui)]
    [] OTHER -> [js |-> js, ui |-> ui]


(* ------------------------------------------------------------------ *)
(* Client -> backend processing (rtmt.py, _process_message_to_server) *)
(* ------------------------------------------------------------------ *)
\* The list of UI message types with view_search_results left out.
ui_message_types_NoViewChange ==
  { UI_RESET_STATE, UI_MANUAL_SEARCH, UI_SELECT_JOB }

ui_message_types ==
  { UI_RESET_STATE, UI_MANUAL_SEARCH, UI_SELECT_JOB, UI_VIEW_SEARCH_RESULTS }

\* "if self.config.X is not None: session[key] = self.config.X"
ApplyIfSet(f, key, value) ==
  IF value # None THEN [f EXCEPT ![key] = value] ELSE f

\* The session.update branch without the override of the voice.
RewriteSessionUpdate_KeepClientVoice(session) ==
  LET f1 == ApplyIfSet(session.f, "instructions", config.system_message)
      f2 == ApplyIfSet(f1, "temperature", config.temperature)
      f3 == ApplyIfSet(f2, "max_response_output_tokens", config.max_tokens)
      f4 == ApplyIfSet(f3, "disable_audio", config.disable_audio)
  IN  [ kind |-> "object",
        f |-> [f4 EXCEPT !["tool_choice"] = ToolChoice],
        has_tools |-> TRUE,
        tools |-> ToolSchemas ]

\* The session.update branch, for a session that is a dict (or missing,
\* which message.get("session", {}) turns into an empty dict).
RewriteSessionUpdate(session) ==
  LET f1 == ApplyIfSet(session.f, "instructions", config.system_message)
      f2 == ApplyIfSet(f1, "temperature", config.temperature)
      f3 == ApplyIfSet(f2, "max_response_output_tokens", config.max_tokens)
      f4 == ApplyIfSet(f3, "disable_audio", config.disable_audio)
      f5 == ApplyIfSet(f4, "voice", config.voice_choice)
  IN  [ kind |-> "object",
        f |-> [f5 EXCEPT !["tool_choice"] = ToolChoice],
        has_tools |-> TRUE,
        tools |-> ToolSchemas ]

\* An undecodable frame that is dropped.
OnJSONDecodeError_Drop(msg) == << >>

\* "except json.JSONDecodeError: return msg_data", in both directions.
OnJSONDecodeError(msg) == <<msg>>

\* _process_message_to_server: out is the text to forward upstream (<< >>
\* for None), js and ui the session after the call, ui_handled whether
\* handle_ui_message was called.  Any exception returns the text that came.
ProcessMessageToServer(msg, js, ui) ==
  LET same == [out |-> <<msg>>, js |-> js, ui |-> ui, ui_handled |-> FALSE]
  IN  CASE msg.json = "bad" -> [same EXCEPT !.out = OnJSONDecodeError(msg)]
        [] msg.json \notin {"object", "bad"} -> same
        [] msg.json = "object" /\ msg.type \in ui_message_types ->
             LET r == handle_ui_message(msg, js, ui)
             IN  [out |-> << >>, js |-> r.js, ui |-> r.ui, ui_handled |-> TRUE]
        [] msg.json = "object" /\ msg.type = SESSION_UPDATE ->
             IF msg.session.kind = "null"
             THEN same   \* session[...] = ... raises TypeError
             ELSE [ same EXCEPT !.out =
                      << [msg EXCEPT !.enc = "dumps",
                                     !.session = RewriteSessionUpdate(msg.session)] >> ]
        [] OTHER -> same

(* ------------------------------------------------------------------ *)
(* Backend -> client processing (rtmt.py, _process_message_to_client) *)
(* ------------------------------------------------------------------ *)

\* Python truthiness of a string-valued JSON field: a missing key (None)
\* and the empty string are false.
Truthy(v) == v # Absent /\ v # ""

\* The conversation.item.create / function_call_output frame of send_json.
FunctionCallOutput(call_id, text) ==
  [ Frame0 EXCEPT !.enc = "dumps", !.type = CONVERSATION_ITEM_CREATE,
                  !.item_type = FUNCTION_CALL_OUTPUT,
                  !.call_id = call_id, !.text = text ]

ResponseCreate == [Frame0 EXCEPT !.enc = "dumps", !.type = RESPONSE_CREATE]

\* The session.created branch.
RewriteSessionCreated(session) ==
  [ kind |-> "object",
    f |-> [ session.f EXCEPT
              !["instructions"] =
                 IF config.system_message # None THEN config.system_message ELSE "",
              !["voice"] = config.voice_choice,
              !["tool_choice"] = ToolChoice,
              !["max_response_output_tokens"] = config.max_tokens ],
    has_tools |-> TRUE,
    tools |-> ToolSchemas ]

\* SessionState.pending_tools is a dict from call id to RTToolCall; the
\* model keeps the call's previous_id under its call id.
EmptyPending == [c \in {} |-> None]

\* The assignment without the "not in pending_tools" test.
RecordToolCall_Overwrite(pending, call_id, previous_id) ==
  IF Truthy(call_id)
  THEN [ c \in DOMAIN pending \cup {call_id} |->
           IF c = call_id THEN previous_id ELSE pending[c] ]
  ELSE pending

\* conversation.item.created with a function_call item:
\* "if call_id and call_id not in pending_tools: pending_tools[call_id] = ..."
RecordToolCall(pending, call_id, previous_id) ==
  IF Truthy(call_id) /\ call_id \notin DOMAIN pending
  THEN [ c \in DOMAIN pending \cup {call_id} |->
           IF c = call_id THEN previous_id ELSE pending[c] ]
  ELSE pending

\* pending_tools[call_id] in place of pending_tools.pop(call_id): the entry
\* stays.
PopToolCall_Keep(pending, call_id) == pending

\* pending_tools.pop(call_id)
PopToolCall(pending, call_id) ==
  [ c \in DOMAIN pending \ {call_id} |-> pending[c] ]

\* tool_def.handler(session_state.job_search, args): _search_jobs and
\* _display_job of job_tools.py.  args is "valid" (a JSON object with the
\* required field; "emptyquery": the same with "query": "") or "norequired"
\* (valid JSON without it: args["query"] raises).  A failed API request is caught inside JobSearch and comes back
\* as an error text; the handlers raise nothing that json.loads raises.
\* [raised, js, ui, text]
RunHandler(name, args, api, js, ui) ==
  IF args \notin {"valid", "emptyquery"}
  THEN [raised |-> TRUE, js |-> js, ui |-> ui, text |-> Absent]
  ELSE LET r == IF name = "search_jobs"
                THEN search_jobs(js, ui, IF args = "valid" THEN "query" ELSE "",
                                 None, api)
                ELSE find_and_display_job(js, ui, "title", api)
       IN  [raised |-> FALSE, js |-> r.js, ui |-> r.ui, text |-> r.text]

\* The try block with an "except Exception" that only logs.
DispatchToolCall_SilentOnError(call_id, name, args, api, js, ui, server) ==
  IF args = "malformed"
  THEN [up |-> << >>, escaped |-> FALSE, js |-> js, ui |-> ui, invoked |-> << >>]
  ELSE LET h == RunHandler(name, args, api, js, ui)
       IN  [ up |-> IF server = "open" /\ ~h.raised
                    THEN << FunctionCallOutput(call_id, h.text) >> ELSE << >>,
             escaped |-> server # "open" /\ ~h.raised,
             js |-> h.js, ui |-> h.ui,
             invoked |-> << [call_id |-> call_id, name |-> name] >> ]

\* The body of "if tool_def:" for a popped call: the try block with its two
\* except clauses.  server is the state of server_ws: a send_json on a
\* connection that is lost raises.  [up, escaped, js, ui, invoked]:
\* up are the frames sent upstream, escaped says that an exception left
\* the block, invoked is the handler invocation if there was one.
DispatchToolCall(call_id, name, args, api, js, ui, server) ==
  IF args = "malformed"
  THEN \* json.loads raises JSONDecodeError: logged
       [up |-> << >>, escaped |-> FALSE, js |-> js, ui |-> ui, invoked |-> << >>]
  ELSE LET h == RunHandler(name, args, api, js, ui)
           text == IF h.raised THEN "error:tool_execution_failed" ELSE h.text
       IN  [ up |-> IF server = "open"
                    THEN << FunctionCallOutput(call_id, text) >> ELSE << >>,
             \* a failed send of the result is caught by "except Exception",
             \* whose own send_json then raises out of the block
             escaped |-> server # "open",
             js |-> h.js, ui |-> h.ui,
             invoked |-> << [call_id |-> call_id, name |-> name] >> ]

\* The response.output_item.done branch for a function_call item.
\* [out, up, pending, js, ui, invoked]
OnFunctionCallDone(msg, pending, js, ui, server) ==
  LET quiet == [ out |-> << >>, up |-> << >>, pending |-> pending,
                 js |-> js, ui |-> ui, invoked |-> << >> ]
  IN  IF ~(Truthy(msg.call_id) /\ Truthy(msg.name) /\ Truthy(msg.args))
      THEN quiet
      ELSE IF msg.call_id = Unhashable
      THEN [quiet EXCEPT !.out = <<msg>>]   \* "in pending_tools" raises TypeError
      ELSE IF msg.call_id \notin DOMAIN pending
      THEN quiet
      ELSE LET popped == PopToolCall(pending, msg.call_id)
           IN  IF msg.name \notin ToolNames
               THEN [quiet EXCEPT !.pending = popped]   \* logged: unknown tool
               ELSE LET d == DispatchToolCall(msg.call_id, msg.name, msg.args,
                                              msg.api, js, ui, server)
                    IN  [ out |-> IF d.escaped THEN <<msg>> ELSE << >>,
                          up |-> d.up, pending |-> popped,
                          js |-> d.js, ui |-> d.ui, invoked |-> d.invoked ]

\* [item for item in output_list if item.get("type") != "function_call"]
RECURSIVE CleanOutput(_)
CleanOutput(items) ==
  IF items = << >> THEN << >>
  ELSE IF Head(items) = FUNCTION_CALL THEN CleanOutput(Tail(items))
  ELSE <<Head(items)>> \o CleanOutput(Tail(items))

\* The response.done branch with one response.create for each pending call.
OnResponseDone_CreatePerCall(msg, pending, server) ==
  LET must_restart == DOMAIN pending # {}
      cleaned == CleanOutput(msg.output)
  IN  IF must_restart /\ server # "open"
      THEN [out |-> <<msg>>, up |-> << >>, pending |-> EmptyPending]
      ELSE [ out |-> IF msg.has_output /\ Len(cleaned) < Len(msg.output)
                     THEN << [msg EXCEPT !.enc = "dumps", !.output = cleaned] >>
                     ELSE <<msg>>,
             up |-> [ i \in 1..Cardinality(DOMAIN pending) |-> ResponseCreate ],
             pending |-> IF must_restart THEN EmptyPending ELSE pending ]

\* The response.done branch.  [out, up, pending]
OnResponseDone(msg, pending, server) ==
  LET must_restart == DOMAIN pending # {}
      cleaned == CleanOutput(msg.output)
  IN  IF must_restart /\ server # "open"
      THEN \* pending_tools.clear() ran, send_json raised
           [out |-> <<msg>>, up |-> << >>, pending |-> EmptyPending]
      ELSE [ out |-> IF msg.has_output /\ Len(cleaned) < Len(msg.output)
                     THEN << [msg EXCEPT !.enc = "dumps", !.output = cleaned] >>
                     ELSE <<msg>>,
             up |-> IF must_restart THEN <<ResponseCreate>> ELSE << >>,
             pending |-> IF must_restart THEN EmptyPending ELSE pending ]

\* _process_message_to_client: out is the text to forward to the client
\* (<< >> for None), up the frames it sent upstream itself.
ProcessMessageToClient(msg, pending, js, ui, server) ==
  LET same == [ out |-> <<msg>>, up |-> << >>, pending |-> pending,
                js |-> js, ui |-> ui, invoked |-> << >> ]
      drop == [same EXCEPT !.out = << >>]
  IN  CASE msg.json = "bad" -> [same EXCEPT !.out = OnJSONDecodeError(msg)]
        [] msg.json \notin {"object", "bad"} -> same
        [] msg.json = "object" /\ msg.type = SESSION_CREATED ->
             IF msg.session.kind # "object"
             THEN same   \* message["session"] raises KeyError, or TypeError
             ELSE [ same EXCEPT !.out =
                      << [msg EXCEPT !.enc = "dumps",
                                     !.session = RewriteSessionCreated(msg.session)] >> ]
        [] msg.json = "object" /\ msg.type = RESPONSE_OUTPUT_ADDED ->
             IF msg.item_type = FUNCTION_CALL THEN drop ELSE same
        [] msg.json = "object" /\ msg.type = CONVERSATION_ITEM_CREATED ->
             IF msg.item_type = FUNCTION_CALL
             THEN IF msg.call_id = Unhashable
                  THEN same   \* "not in pending_tools" raises TypeError
                  ELSE [drop EXCEPT !.pending =
                          RecordToolCall(pending, msg.call_id, msg.prev)]
             ELSE IF msg.item_type = FUNCTION_CALL_OUTPUT THEN drop ELSE same
        [] msg.json = "object" /\ msg.type = FUNCTION_CALL_ARGS_DELTA -> drop
        [] msg.json = "object" /\ msg.type = FUNCTION_CALL_ARGS_DONE -> drop
        [] msg.json = "object" /\ msg.type = RESPONSE_OUTPUT_DONE ->
             IF msg.item_type = FUNCTION_CALL
             THEN OnFunctionCallDone(msg, pending, js, ui, server)
             ELSE same
        [] msg.json = "object" /\ msg.type = RESPONSE_DONE ->
             LET r == OnResponseDone(msg, pending, server)
             IN  [same EXCEPT !.out = r.out, !.up = r.up, !.pending = r.pending]
        [] OTHER -> same


(* ------------------------------------------------------------------ *)
(* The frames the two peers may send                                  *)
(* ------------------------------------------------------------------ *)
ClientSession(f, has_tools) ==
  [ kind |-> "object", f |-> f, has_tools |-> has_tools,
    tools |-> IF has_tools THEN <<"schema:client_tool">> ELSE << >> ]

\* Every session object a client may put into a session.update.
ClientSessions ==
  { ClientSession(f, t) : f \in [SessionFields -> {Absent, "client"}],
                          t \in BOOLEAN }
  \cup { NoSession, [NoSession EXCEPT !.kind = "null"] }

SessionUpdates ==
  { [Frame0 EXCEPT !.type = SESSION_UPDATE, !.session = s] : s \in ClientSessions }

\* A few of them, for the runs that are not about session.update.
CoreSessionUpdates ==
  { m \in SessionUpdates :
      \/ m.session.kind # "object"
      \/ (\A k \in SessionFields : m.session.f[k] = "client") /\ m.session.has_tools }

UiMessages ==
  { [Frame0 EXCEPT !.type = t] : t \in {UI_RESET_STATE, UI_VIEW_SEARCH_RESULTS} }
  \cup { [Frame0 EXCEPT !.type = t, !.data = d] :
           t \in {UI_MANUAL_SEARCH, UI_SELECT_JOB}, d \in {Absent, "nonobject"} }
  \cup { [Frame0 EXCEPT !.type = t, !.data = "full", !.api = a] :
           t \in {UI_MANUAL_SEARCH, UI_SELECT_JOB}, a \in {"ok", "fail"} }

OtherClientMessages ==
  { [Frame0 EXCEPT !.type = INPUT_AUDIO_BUFFER_APPEND],
    [Frame0 EXCEPT !.json = "scalar"],
    [Frame0 EXCEPT !.json = "bad"] }

ClientMessages == CoreSessionUpdates \cup UiMessages \cup OtherClientMessages

\* The client messages of the runs that are about the backend's events.
CoreClientMessages ==
  { m \in ClientMessages :
      \/ m.type \in {INPUT_AUDIO_BUFFER_APPEND, UI_RESET_STATE}
      \/ m.type = UI_MANUAL_SEARCH /\ m.api = "ok" }

BackendSession ==
  [ kind |-> "object", f |-> [k \in SessionFields |-> "backend"],
    has_tools |-> TRUE, tools |-> << >> ]

\* Function-call start events: call_1 after either preceding item, the
\* second call id after item_1, and a call id that is missing or not
\* hashable.
FunctionCallStarts ==
  LET start == [Frame0 EXCEPT !.type = CONVERSATION_ITEM_CREATED,
                              !.item_type = FUNCTION_CALL]
  IN  { [start EXCEPT !.call_id = "call_1", !.prev = p] : p \in PrevIds }
      \cup { [start EXCEPT !.call_id = c, !.prev = "item_1"] : c \in CallIds }
      \cup { [start EXCEPT !.call_id = c] : c \in {Absent, Unhashable} }

\* Completion events.  For call_1: each registered tool with arguments that
\* parse and hold the required field ("valid"), under both answers of the
\* careers API; arguments that parse but lack the required field
\* ("norequired"), that do not parse ("malformed") or are the empty string;
\* a tool name that is not registered or is missing.  For the other call
\* ids, and for a call id that is missing or not hashable: a search.
FunctionCallDones ==
  LET done == [Frame0 EXCEPT !.type = RESPONSE_OUTPUT_DONE,
                             !.item_type = FUNCTION_CALL, !.call_id = "call_1"]
  IN  { [done EXCEPT !.name = n, !.args = "valid", !.api = a] :
          n \in ToolNames, a \in {"ok", "fail"} }
      \cup { [done EXCEPT !.name = "search_jobs", !.args = x] :
          x \in {"norequired", "malformed", ""} }
      \cup { [done EXCEPT !.name = n, !.args = "valid"] :
          n \in {"unknown_tool", ""} }
      \cup { [done EXCEPT !.call_id = c, !.name = "search_jobs", !.args = "valid",
                          !.api = "ok"] : c \in CallIds \cup {Absent, Unhashable} }

ResponseDones ==
  { [Frame0 EXCEPT !.type = RESPONSE_DONE] }
  \cup { [Frame0 EXCEPT !.type = RESPONSE_DONE, !.has_output = TRUE, !.output = o] :
           o \in { << >>, <<"message">>, <<FUNCTION_CALL>>,
                   <<"message", FUNCTION_CALL, "audio">> } }

BackendMessages ==
  { [Frame0 EXCEPT !.type = SESSION_CREATED, !.session = BackendSession],
    [Frame0 EXCEPT !.type = SESSION_CREATED],
    [Frame0 EXCEPT !.type = RESPONSE_OUTPUT_ADDED, !.item_type = FUNCTION_CALL],
    [Frame0 EXCEPT !.type = RESPONSE_OUTPUT_ADDED, !.item_type = "message"],
    [Frame0 EXCEPT !.type = CONVERSATION_ITEM_CREATED, !.item_type = FUNCTION_CALL_OUTPUT],
    [Frame0 EXCEPT !.type = CONVERSATION_ITEM_CREATED, !.item_type = "message"],
    [Frame0 EXCEPT !.type = FUNCTION_CALL_ARGS_DELTA],
    [Frame0 EXCEPT !.type = FUNCTION_CALL_ARGS_DONE],
    [Frame0 EXCEPT !.type = RESPONSE_OUTPUT_DONE, !.item_type = "message"],
    [Frame0 EXCEPT !.type = "response.audio.delta"],
    [Frame0 EXCEPT !.json = "scalar"],
    [Frame0 EXCEPT !.json = "bad"] }
  \cup FunctionCallStarts \cup FunctionCallDones \cup ResponseDones

\* The backend events of the runs that are about the client's messages:
\* one tool call, announced, completed, or cut off by response.done.
CoreBackendMessages ==
  { m \in BackendMessages :
      \/ m.json = "object" /\ m.type \in {"response.audio.delta", RESPONSE_DONE}
      \/ /\ m.call_id = "call_1"
         /\ m.prev \in {Absent, "item_1"}
         /\ m.args \in {Absent, "valid"}
         /\ m.name \in ToolNames \cup {Absent} }

(* ------------------------------------------------------------------ *)
(* State                                                              *)
(* ------------------------------------------------------------------ *)
VARIABLES
  pending_tools,  \* SessionState.pending_tools
  ui_state,       \* SessionState.ui_state
  job_search,     \* SessionState.job_search
  client_ws,      \* the client connection: "none", "open", "lost", "closed"
  server_ws,      \* the upstream connection, likewise
  c2s,            \* from_client_to_server: "idle", "run", "done", "failed"
  s2c,            \* from_server_to_client, likewise
  forward,        \* _forward_messages: "idle", "run", "stopped"
  close_code,     \* the code the relay closed client_ws with (0: none)
  dispatched,     \* history: the call ids a handler has been invoked for
  pending_before, \* history: pending_tools when the last step began
  msg_in,         \* the frame the last step processed, with its direction
  to_server,      \* the frames the last step sent upstream
  to_client,      \* the frames the last step sent to the client
  invoked,        \* the handler invocations of the last step
  ui_handled,     \* whether the last step called handle_ui_message
  callbacks,      \* UIState._on_update_callbacks, in registration order
  tasks,          \* the _notify_listeners_async tasks, in creation order
  delivered,      \* history: for each callback, the snapshots it was called with
  applied,        \* history: get_state() after each mutator call, in call order
  ui_op,          \* the last call on the UI state, with its arguments
  _MEMORY_CACHE,  \* app.py: session id -> the index of its SessionState, or 0
  sessions,       \* the SessionState objects created so far, by index
  redis,          \* the store: the session keys and the active-sessions set
  conns,          \* the inbound connections, each with its _websocket_handler
  closing,        \* the connections cleanup_session has scheduled a close for
  evicted,        \* history: whether a cache entry was ever removed
  last_op,        \* the last step of the session layer
  saved,          \* the UI snapshot save_to_redis last wrote for the session
  arrivals,       \* history: the frames that arrived, for each direction
  forwards        \* history: the frames forwarded, with their arrival number

session_vars == <<pending_tools, ui_state, job_search>>
conn_vars == <<client_ws, server_ws, c2s, s2c, forward, close_code>>
notify_vars == <<callbacks, tasks, delivered, applied, ui_op>>
store_vars == <<_MEMORY_CACHE, sessions, redis, conns, closing, evicted, last_op>>
order_vars == <<arrivals, forwards>>
vars == <<pending_tools, ui_state, job_search, client_ws, server_ws, c2s, s2c,
          forward, close_code, dispatched, pending_before, msg_in, to_server,
          to_client, invoked, ui_handled, callbacks, tasks, delivered, applied,
          ui_op, _MEMORY_CACHE, sessions, redis, conns, closing, evicted,
          last_op, saved, arrivals, forwards>>

\* aiohttp.WSCloseCode
INTERNAL_ERROR == 1011
TRY_AGAIN_LATER == 1013

NoMsg == [dir |-> "none", msg |-> NoFrame]

\* No call yet.
NoOp == [op |-> "none"]

\* The session ids clients connect with, and the inbound connections.
SessionIds == {"sid_1", "sid_2"}
ConnIds == {"conn_1", "conn_2"}

\* A connection that has not arrived: the position of its handler, the
\* session id of its request, the SessionState it got, its WebSocketResponse
\* ("none", "open", "closed") and the close code the relay gave.
\* and how _forward_messages went for it.  first is the first frame the
\* relay sent to the client on it.
NoneSent == [type |-> "none"]
NoConn == [pc |-> "idle", sid |-> None, session |-> 0, ws |-> "none", code |-> 0,
           outcome |-> "none", first |-> NoneSent]

\* The session_data SessionState.save_to_redis builds: the snapshot of the
\* UI state, the three fields of the JobSearchTool, the ids of the pending
\* calls.
session_data(ui, js, pending) ==
  [ found |-> TRUE, has_ui |-> TRUE,
    ui |-> [ search_kind |-> "object", query |-> ui.query, country |-> ui.country,
             has_results |-> ui.has_results, results |-> ui.results,
             total_count |-> ui.total_count, current_job |-> ui.current_job,
             view_mode |-> ui.view_mode ],
    has_js |-> TRUE, js_current_job |-> js.current_job,
    js_search_query |-> js.search_query, js_search_country |-> js.search_country,
    pending |-> DOMAIN pending ]

\* No record under the key.
NoRecord == [found |-> FALSE]

\* The record of a session nothing has happened in.
NewRecord == session_data(InitialUIState, InitialJobSearch, EmptyPending)

\* The store when the process starts: the records of earlier runs.  A record
\* expires on its own (setex), its membership in the active set does not.
\* data is the record of each key: what SessionState.save_to_redis wrote.
StoreStates ==
  { r \in { [keys |-> k, active |-> a,
             data |-> [sid \in SessionIds |-> IF sid \in k THEN NewRecord ELSE NoRecord]] :
              k \in SUBSET SessionIds, a \in SUBSET SessionIds } :
      r.keys \subseteq r.active }

\* A step that processes no frame.
Quiet ==
  /\ UNCHANGED <<notify_vars, store_vars, order_vars>>
  /\ pending_before' = pending_tools
  /\ msg_in' = NoMsg
  /\ to_server' = << >>
  /\ to_client' = << >>
  /\ invoked' = << >>
  /\ ui_handled' = FALSE

InitProcess ==
  /\ pending_tools = EmptyPending
  /\ ui_state = InitialUIState
  /\ job_search = InitialJobSearch
  /\ client_ws = "none"
  /\ server_ws = "none"
  /\ c2s = "idle"
  /\ s2c = "idle"
  /\ forward = "idle"
  /\ close_code = 0
  /\ dispatched = {}
  /\ pending_before = EmptyPending
  /\ msg_in = NoMsg
  /\ to_server = << >>
  /\ to_client = << >>
  /\ invoked = << >>
  /\ ui_handled = FALSE
  /\ callbacks = << >>
  /\ tasks = << >>
  /\ delivered = << >>
  /\ applied = << >>
  /\ ui_op = NoOp
  /\ _MEMORY_CACHE = [sid \in SessionIds |-> 0]
  /\ sessions = << >>
  /\ conns = [c \in ConnIds |-> NoConn]
  /\ closing = {}
  /\ evicted = FALSE
  /\ last_op = NoOp
  /\ saved = InitialUIState
  /\ arrivals = [c2s |-> << >>, s2c |-> << >>]
  /\ forwards = [c2s |-> << >>, s2c |-> << >>]

\* The process starts against an empty store.
Init ==
  InitProcess
    /\ redis = [keys |-> {}, active |-> {}, data |-> [sid \in SessionIds |-> NoRecord]]

\* The process starts against the store an earlier run left.
InitSessions == InitProcess /\ redis \in StoreStates

(* ------------------------------------------------------------------ *)
(* The relay connection (rtmt.py, _forward_messages)                  *)
(* ------------------------------------------------------------------ *)

\* What SessionState.save_to_redis writes as 'ui_state_data' (the store is
\* available): the snapshot get_state() returns.
ui_state_data(ui) == ui

\* handle_ui_message reaches its save_to_redis unless the handler of the
\* message raised: a "data" value that is no dict.
UiMessageSaves(msg) ==
  ~(msg.type \in {UI_MANUAL_SEARCH, UI_SELECT_JOB} /\ msg.data = "nonobject")

\* A client connection was accepted (the handler saved the session when it
\* attached) and _forward_messages starts: the
\* token provider may raise, ws_connect may raise ClientConnectorError or
\* WSServerHandshakeError, or the upstream connection opens and the two
\* pumps start.  The session is the cached one: it keeps its state.
ForwardMessagesStart(outcome) ==
  /\ forward \in {"idle", "stopped"}
  /\ c2s # "run" /\ s2c # "run"
  /\ IF outcome = "connected"
     THEN /\ client_ws' = "open"
          /\ server_ws' = "open"
          /\ c2s' = "run"
          /\ s2c' = "run"
          /\ forward' = "run"
          /\ close_code' = 0
     ELSE /\ client_ws' = "closed"
          /\ server_ws' = "none"
          /\ c2s' = "idle"
          /\ s2c' = "idle"
          /\ forward' = "stopped"
          /\ close_code' = IF outcome = "unreachable"
                           THEN TRY_AGAIN_LATER ELSE INTERNAL_ERROR
  /\ saved' = ui_state_data(ui_state)
  /\ Quiet
  /\ UNCHANGED <<session_vars, dispatched>>

\* A send that serialises the frame again.
Forwarded_Reencoded(out, ws) ==
  IF ws = "open" THEN [i \in 1..Len(out) |-> [out[i] EXCEPT !.enc = "dumps"]]
  ELSE << >>

\* "if processed_msg is not None and not ws.closed: await ws.send_str(...)":
\* what reaches the peer, and whether send_str raised (the connection is
\* lost but not yet closed).
Forwarded(out, ws) == IF ws = "open" THEN out ELSE << >>
SendRaises(out, ws) == out # << >> /\ ws = "lost"

\* from_client_to_server, one iteration for a TEXT message.
ClientFrameStep(msg) ==
  /\ c2s = "run"
  /\ client_ws = "open"
  /\ LET r == ProcessMessageToServer(msg, job_search, ui_state)
     IN  /\ job_search' = r.js
         /\ ui_state' = r.ui
         /\ ui_handled' = r.ui_handled
         /\ to_server' = Forwarded(r.out, server_ws)
         /\ c2s' = IF SendRaises(r.out, server_ws) THEN "failed" ELSE "run"
         /\ saved' = IF r.ui_handled /\ UiMessageSaves(msg)
                     THEN ui_state_data(r.ui) ELSE saved
  /\ pending_before' = pending_tools
  /\ msg_in' = [dir |-> "c2s", msg |-> msg]
  /\ to_client' = << >>
  /\ invoked' = << >>
  /\ UNCHANGED <<pending_tools, client_ws, server_ws, s2c, forward,
                 close_code, dispatched, notify_vars, store_vars>>

ClientFrame(msg) == ClientFrameStep(msg) /\ UNCHANGED order_vars

\* from_server_to_client, one iteration for a TEXT message.  A tool handler
\* that ran is followed by no save_to_redis.
ServerFrameStep(msg) ==
  /\ s2c = "run"
  /\ server_ws \in {"open", "lost"}
  /\ LET r == ProcessMessageToClient(msg, pending_tools, job_search, ui_state,
                                     server_ws)
     IN  /\ pending_tools' = r.pending
         /\ job_search' = r.js
         /\ ui_state' = r.ui
         /\ invoked' = r.invoked
         /\ dispatched' = dispatched \cup { r.invoked[i].call_id : i \in 1..Len(r.invoked) }
         /\ to_server' = r.up
         /\ to_client' = Forwarded(r.out, client_ws)
         /\ s2c' = IF SendRaises(r.out, client_ws) THEN "failed" ELSE "run"
  /\ pending_before' = pending_tools
  /\ msg_in' = [dir |-> "s2c", msg |-> msg]
  /\ ui_handled' = FALSE
  /\ UNCHANGED <<client_ws, server_ws, c2s, forward, close_code, saved,
                 notify_vars, store_vars>>

ServerFrame(msg) == ServerFrameStep(msg) /\ UNCHANGED order_vars

\* The peers: a connection closes or breaks.  The relay's object is not
\* closed yet; backend frames that arrived before are still read.
ClientDisconnects ==
  /\ forward = "run"
  /\ client_ws = "open"
  /\ client_ws' = "lost"
  /\ UNCHANGED saved
  /\ Quiet
  /\ UNCHANGED <<session_vars, server_ws, c2s, s2c, forward, close_code, dispatched>>

ServerDisconnects ==
  /\ forward = "run"
  /\ server_ws = "open"
  /\ server_ws' = "lost"
  /\ UNCHANGED saved
  /\ Quiet
  /\ UNCHANGED <<session_vars, client_ws, c2s, s2c, forward, close_code, dispatched>>

\* The client loop without the close of the upstream connection.
ServerAfterClientLoop_LeaveOpen(server) == server

\* "if not server_ws.closed: await server_ws.close()" after the client loop
ServerAfterClientLoop(server) == "closed"

\* "if not client_ws.closed: await client_ws.close()" after the server loop
ClientAfterServerLoop(client) == "closed"

\* from_client_to_server: the loop over client_ws ends (a CLOSE, CLOSING,
\* CLOSED or ERROR message) and the upstream connection is closed.
ClientLoopEnds ==
  /\ c2s = "run"
  /\ client_ws \in {"lost", "closed"}
  /\ client_ws' = "closed"
  /\ server_ws' = ServerAfterClientLoop(server_ws)
  /\ c2s' = "done"
  /\ UNCHANGED saved
  /\ Quiet
  /\ UNCHANGED <<session_vars, s2c, forward, close_code, dispatched>>

\* from_server_to_client: the loop over server_ws ends and the client
\* connection is closed.
ServerLoopEnds ==
  /\ s2c = "run"
  /\ server_ws \in {"lost", "closed"}
  /\ server_ws' = "closed"
  /\ client_ws' = ClientAfterServerLoop(client_ws)
  /\ s2c' = "done"
  /\ UNCHANGED saved
  /\ Quiet
  /\ UNCHANGED <<session_vars, c2s, forward, close_code, dispatched>>

\* asyncio.gather returns: both pumps are done.
GatherReturns ==
  /\ forward = "run"
  /\ c2s = "done" /\ s2c = "done"
  /\ forward' = "stopped"
  /\ saved' = ui_state_data(ui_state)
  /\ Quiet
  /\ UNCHANGED <<session_vars, client_ws, server_ws, c2s, s2c, close_code, dispatched>>

\* asyncio.gather raises the exception of a pump: "async with ws_connect"
\* closes server_ws on the way out, and "except Exception" closes client_ws
\* if it is not closed.  The other pump is not cancelled.
GatherRaises ==
  /\ forward = "run"
  /\ c2s = "failed" \/ s2c = "failed"
  /\ server_ws' = "closed"
  /\ client_ws' = "closed"
  /\ close_code' = IF client_ws # "closed" THEN INTERNAL_ERROR ELSE close_code
  /\ forward' = "stopped"
  /\ saved' = ui_state_data(ui_state)
  /\ Quiet
  /\ UNCHANGED <<session_vars, c2s, s2c, dispatched>>

\* The steps of the connection itself.
Lifecycle ==
  \/ \E o \in {"token_failed", "unreachable", "handshake_failed", "connected"} :
       ForwardMessagesStart(o)
  \/ ClientDisconnects
  \/ ServerDisconnects
  \/ ClientLoopEnds
  \/ ServerLoopEnds
  \/ GatherReturns
  \/ GatherRaises

\* The relay under every client message and the events of one tool call.
Next ==
  \/ Lifecycle
  \/ \E m \in ClientMessages : ClientFrame(m)
  \/ \E m \in CoreBackendMessages : ServerFrame(m)

Spec == Init /\ [][Next]_vars

\* The relay under every backend event and a few client messages.
NextTools ==
  \/ Lifecycle
  \/ \E m \in CoreClientMessages : ClientFrame(m)
  \/ \E m \in BackendMessages : ServerFrame(m)

SpecTools == Init /\ [][NextTools]_vars

\* The rewriting of session.update, under every session object.
NextUpdate ==
  \/ ForwardMessagesStart("connected")
  \/ ServerDisconnects
  \/ \E m \in SessionUpdates : ClientFrame(m)

SpecUpdate == Init /\ [][NextUpdate]_vars

\* The two pumps with the order of their frames written down.  MaxFrames
\* frames are followed in each direction.
MaxFrames == 3

\* A send that jumps the queue of what was sent before.
Relay_NewestFirst(log, n, out) ==
  [i \in 1..Len(out) |-> [n |-> n, msg |-> out[i]]] \o log

\* "await ws.send_str(processed_msg)" inside the loop: what is sent for the
\* n-th frame goes out after everything sent for the frames before it.
Relay(log, n, out) ==
  log \o [i \in 1..Len(out) |-> [n |-> n, msg |-> out[i]]]

ClientFrameInOrder(msg) ==
  /\ Len(arrivals.c2s) < MaxFrames
  /\ ClientFrameStep(msg)
  /\ arrivals' = [arrivals EXCEPT !.c2s = Append(@, msg)]
  /\ forwards' = [forwards EXCEPT
                    !.c2s = Relay(@, Len(arrivals.c2s) + 1, to_server')]

ServerFrameInOrder(msg) ==
  /\ Len(arrivals.s2c) < MaxFrames
  /\ ServerFrameStep(msg)
  /\ arrivals' = [arrivals EXCEPT !.s2c = Append(@, msg)]
  /\ forwards' = [forwards EXCEPT
                    !.s2c = Relay(@, Len(arrivals.s2c) + 1, to_client')]

\* Client frames: forwarded as it came, rewritten, intercepted, undecodable.
OrderClientMessages ==
  { [Frame0 EXCEPT !.type = INPUT_AUDIO_BUFFER_APPEND],
    [Frame0 EXCEPT !.type = SESSION_UPDATE,
                   !.session = ClientSession([k \in SessionFields |-> "client"], TRUE)],
    [Frame0 EXCEPT !.type = UI_RESET_STATE],
    [Frame0 EXCEPT !.json = "bad"] }

\* Backend frames, likewise.
OrderBackendMessages ==
  { [Frame0 EXCEPT !.type = "response.audio.delta"],
    [Frame0 EXCEPT !.type = SESSION_CREATED, !.session = BackendSession],
    [Frame0 EXCEPT !.type = FUNCTION_CALL_ARGS_DELTA],
    [Frame0 EXCEPT !.type = RESPONSE_DONE, !.has_output = TRUE,
                   !.output = <<"message", FUNCTION_CALL, "audio">>],
    [Frame0 EXCEPT !.json = "bad"] }

NextOrder ==
  \/ ForwardMessagesStart("connected")
  \/ \E m \in OrderClientMessages : ClientFrameInOrder(m)
  \/ \E m \in OrderBackendMessages : ServerFrameInOrder(m)

SpecOrder == Init /\ [][NextOrder]_vars

(* ------------------------------------------------------------------ *)
(* UI state: mutators, restore and listeners (ui_state.py)            *)
(* ------------------------------------------------------------------ *)

\* How many callbacks are registered and how many mutator calls are followed.
MaxListeners == 2
MaxMutations == 2

\* ViewMode
ViewModes == {"search", "detail"}

\* get_state(): the snapshot is the whole record of the model.
get_state(ui) == ui

\* The ui_state_data of a stored record: "search" is missing, null or an
\* object; "view_mode" is missing (Absent) or any string.
UiStateData ==
  [ search_kind : {"absent", "null", "object"},
    query : {None, "q1"}, country : {None}, has_results : BOOLEAN,
    results : { <<"job_1", "job_2">> }, total_count : {2},
    current_job : {None, "job_detail"},
    view_mode : {Absent, "search", "detail", "bogus"} ]

\* set_state_from_dict without the "except ValueError" around ViewMode(...).
set_state_from_dict_Strict(ui, state) ==
  IF state.search_kind = "null"
     \/ (state.view_mode # Absent /\ state.view_mode \notin ViewModes)
  THEN [raised |-> TRUE, ui |-> ui]
  ELSE LET u1 == IF state.search_kind = "object" /\ Bool(state.query)
                 THEN [ ui EXCEPT !.query = state.query,
                                  !.country = state.country,
                                  !.has_results = TRUE,
                                  !.results = IF state.has_results
                                              THEN state.results ELSE << >>,
                                  !.total_count = state.total_count ]
                 ELSE ui
           u2 == IF Bool(state.current_job)
                 THEN [u1 EXCEPT !.current_job = state.current_job] ELSE u1
       IN  [ raised |-> FALSE,
             ui |-> IF state.view_mode = Absent THEN u2
                    ELSE [u2 EXCEPT !.view_mode = state.view_mode] ]

\* UIState.set_state_from_dict: [raised, ui].  A "search" that is null makes
\* search_data.get raise AttributeError.
set_state_from_dict(ui, state) ==
  IF state.search_kind = "null"
  THEN [raised |-> TRUE, ui |-> ui]
  ELSE LET u1 == IF state.search_kind = "object" /\ Bool(state.query)
                 THEN [ ui EXCEPT !.query = state.query,
                                  !.country = state.country,
                                  !.has_results = TRUE,
                                  !.results = IF state.has_results
                                              THEN state.results ELSE << >>,
                                  !.total_count = state.total_count ]
                 ELSE ui
           u2 == IF Bool(state.current_job)
                 THEN [u1 EXCEPT !.current_job = state.current_job] ELSE u1
           u3 == IF state.view_mode = Absent THEN u2
                 ELSE IF state.view_mode \in ViewModes
                 THEN [u2 EXCEPT !.view_mode = state.view_mode]
                 ELSE [u2 EXCEPT !.view_mode = "search"]
       IN  [raised |-> FALSE, ui |-> u3]

\* The records SessionState.load_from_redis may find: none, or one with
\* ui_state_data (has_ui: present and not empty) and job_search_data.
StoredRecords ==
  [ found : {TRUE}, has_ui : BOOLEAN, ui : UiStateData,
    has_js : BOOLEAN, js_current_job : {None, "job_detail"},
    js_search_query : {None, "q1"}, js_search_country : {None, "CH"} ]

\* SessionState.load_from_redis on a record that was found:
\* [loaded, js, ui]; an exception is logged and None returned.
load_from_redis(rec) ==
  LET r == IF rec.has_ui THEN set_state_from_dict(InitialUIState, rec.ui)
           ELSE [raised |-> FALSE, ui |-> InitialUIState]
      j1 == IF rec.has_js /\ Bool(rec.js_current_job)
            THEN [InitialJobSearch EXCEPT !.current_job = rec.js_current_job]
            ELSE InitialJobSearch
      j2 == IF rec.has_js /\ Bool(rec.js_search_query)
            THEN [j1 EXCEPT !.search_query = rec.js_search_query] ELSE j1
      j3 == IF rec.has_js
            THEN [j2 EXCEPT !.search_country = rec.js_search_country] ELSE j2
  IN  IF r.raised
      THEN [loaded |-> FALSE, js |-> InitialJobSearch, ui |-> InitialUIState]
      ELSE [loaded |-> TRUE, js |-> j3, ui |-> r.ui]

\* The calls that change a session's UI state: the four mutators, reset_state
\* being the session's reset_all_state.
UpdateSearchOps ==
  [ op : {"update_search"}, query : {"q1"}, country : {None, "CH"},
    results : { SubSeq(<<"job_1", "job_2", "job_3", "job_4", "job_5",
                         "job_6", "job_7">>, 1, n) : n \in {0, 4, 5, 6, 7} },
    total_count : {7, 42} ]

OtherOps ==
  { [op |-> "update_job_detail", job |-> "job_detail"],
    [op |-> "reset_view"], [op |-> "reset_state"] }

AllOps == UpdateSearchOps \cup OtherOps

CoreOps ==
  { o \in UpdateSearchOps :
      o.country = None /\ Len(o.results) = 6 /\ o.total_count = 42 }
  \cup OtherOps

\* The mutator call op on a session: [js, ui].
ApplyOp(op, js, ui) ==
  CASE op.op = "update_search" ->
         [ js |-> js,
           ui |-> update_search(ui, op.query, op.country, op.results,
                                op.total_count) ]
    [] op.op = "update_job_detail" ->
         [js |-> js, ui |-> update_job_detail(ui, op.job)]
    [] op.op = "reset_view" -> [js |-> js, ui |-> reset_view(ui)]
    [] op.op = "reset_state" -> reset_all_state(js, ui)

\* The callbacks add_update_listener may be given: plain functions and
\* coroutine functions; one that returns ("ok"), one that raises, and a
\* coroutine function that takes the snapshot and then waits ("slow"), as
\* send_ui_update does when the client's socket is not writable.
Callbacks ==
  { [kind |-> "sync", mode |-> "ok"], [kind |-> "sync", mode |-> "raises"],
    [kind |-> "async", mode |-> "ok"], [kind |-> "async", mode |-> "raises"],
    [kind |-> "async", mode |-> "slow"] }

\* One call of a callback with a snapshot: n is the number of the mutator
\* call the snapshot was taken after.
Delivery(n, state) == [n |-> n, state |-> state]

Deliver(dl, i, n, state) ==
  [dl EXCEPT ![i] = Append(dl[i], Delivery(n, state))]

\* The loop over sync_callbacks in _notify_listeners: the callbacks are
\* called in order and the first one that raises ends the loop.
RECURSIVE NotifySync(_, _, _, _, _)
NotifySync(cbs, dl, i, n, state) ==
  IF i > Len(cbs) THEN [delivered |-> dl, raised |-> FALSE]
  ELSE IF cbs[i].kind # "sync" THEN NotifySync(cbs, dl, i + 1, n, state)
  ELSE IF cbs[i].mode = "raises"
  THEN [delivered |-> Deliver(dl, i, n, state), raised |-> TRUE]
  ELSE NotifySync(cbs, Deliver(dl, i, n, state), i + 1, n, state)

\* _notify_listeners: [delivered, tasks, raised].  An exception of a
\* synchronous callback leaves before create_task.
notify_listeners(cbs, dl, tks, n, state) ==
  LET r == NotifySync(cbs, dl, 1, n, state)
      any_async == \E i \in 1..Len(cbs) : cbs[i].kind = "async"
  IN  [ delivered |-> r.delivered,
        raised |-> r.raised,
        tasks |-> IF ~r.raised /\ any_async
                  THEN Append(tks, [ n |-> n, state |-> state, next |-> 1,
                                     status |-> "new" ])
                  ELSE tks ]

\* _notify_listeners_async from callback number task.next on, until a
\* callback waits, one raises, or the list (as it is now) ends:
\* [delivered, task].
RECURSIVE notify_listeners_async(_, _, _)
notify_listeners_async(cbs, dl, task) ==
  LET i == task.next
  IN  IF i > Len(cbs) THEN [delivered |-> dl, task |-> [task EXCEPT !.status = "done"]]
      ELSE IF cbs[i].kind # "async"
      THEN notify_listeners_async(cbs, dl, [task EXCEPT !.next = i + 1])
      ELSE LET dl1 == Deliver(dl, i, task.n, task.state)
           IN  CASE cbs[i].mode = "raises" ->
                      [delivered |-> dl1, task |-> [task EXCEPT !.status = "failed"]]
                 [] cbs[i].mode = "slow" ->
                      [ delivered |-> dl1,
                        task |-> [task EXCEPT !.status = "waiting", !.next = i + 1] ]
                 [] OTHER ->
                      notify_listeners_async(cbs, dl1, [task EXCEPT !.next = i + 1])

\* The variables of one relay connection, which the steps below leave alone.
relay_vars ==
  <<pending_tools, client_ws, server_ws, c2s, s2c, forward, close_code,
    dispatched, pending_before, msg_in, to_server, to_client, invoked,
    ui_handled, saved, arrivals, forwards>>

\* add_update_listener(cb).  with_initial: the registration is the one of
\* _websocket_handler, which then calls the callback with get_state().
AddUpdateListener(cb, with_initial) ==
  /\ Len(callbacks) < MaxListeners
  /\ with_initial => cb.kind = "async" /\ cb.mode # "raises"
  /\ callbacks' = Append(callbacks, cb)
  /\ delivered' = Append(delivered,
                         IF with_initial
                         THEN << Delivery(Len(applied), get_state(ui_state)) >>
                         ELSE << >>)
  /\ ui_op' = [op |-> "add_update_listener"]
  /\ UNCHANGED <<ui_state, job_search, tasks, applied, relay_vars, store_vars>>

\* A mutator call, from the UI-message path or from a tool handler: the
\* fields change, then _notify_listeners runs.
Mutate(op) ==
  /\ Len(applied) < MaxMutations
  /\ LET r == ApplyOp(op, job_search, ui_state)
         n == Len(applied) + 1
         nt == notify_listeners(callbacks, delivered, tasks, n, get_state(r.ui))
     IN  /\ ui_state' = r.ui
         /\ job_search' = r.js
         /\ applied' = Append(applied, [ state |-> get_state(r.ui),
                                         ncb |-> Len(callbacks) ])
         /\ delivered' = nt.delivered
         /\ tasks' = nt.tasks
         /\ ui_op' = [op |-> "mutate", call |-> op, raised |-> nt.raised]
  /\ UNCHANGED <<callbacks, relay_vars, store_vars>>

\* The event loop runs a notification task: a new one when the tasks created
\* before it have started, a waiting one when its callback returns.
RunTask(t) ==
  /\ t \in 1..Len(tasks)
  /\ \/ tasks[t].status = "waiting"
     \/ /\ tasks[t].status = "new"
        /\ \A u \in 1..(t - 1) : tasks[u].status # "new"
  /\ LET r == notify_listeners_async(callbacks, delivered, tasks[t])
     IN  /\ delivered' = r.delivered
         /\ tasks' = [tasks EXCEPT ![t] = r.task]
  /\ ui_op' = [op |-> "run_task", task |-> t]
  /\ UNCHANGED <<ui_state, job_search, callbacks, applied, relay_vars, store_vars>>

\* get_or_create_session finds a record and builds the SessionState from it,
\* before anything else has touched the session.
LoadFromRedis(rec) ==
  /\ ui_op = NoOp
  /\ LET r == load_from_redis(rec)
     IN  /\ ui_state' = r.ui
         /\ job_search' = r.js
         /\ ui_op' = [op |-> "load_from_redis", record |-> rec, loaded |-> r.loaded]
  /\ UNCHANGED <<callbacks, tasks, delivered, applied, relay_vars, store_vars>>

\* A session's UI state under every mutator call and every stored record.
NextUI ==
  \/ \E rec \in StoredRecords : LoadFromRedis(rec)
  \/ \E op \in AllOps : Mutate(op)

SpecUI == Init /\ [][NextUI]_vars

\* A session's UI state with its listeners.
NextNotify ==
  \/ \E cb \in Callbacks, i \in BOOLEAN : AddUpdateListener(cb, i)
  \/ \E op \in CoreOps : Mutate(op)
  \/ \E t \in 1..MaxMutations : RunTask(t)

SpecNotify == Init /\ [][NextNotify]_vars

\* JobSearchTool.search_jobs(query, country) on the session, from a UI
\* message or a tool handler, with the answer of the API.  The call of
\* update_search, if there is one, notifies the listeners.
SearchJobs(query, country, api) ==
  /\ Len(applied) < MaxMutations
  /\ \E r \in {search_jobs(job_search, ui_state, query, country, api)} :
     LET n == Len(applied) + 1
         nt == IF r.updates = 0
               THEN [delivered |-> delivered, tasks |-> tasks]
               ELSE notify_listeners(callbacks, delivered, tasks, n, get_state(r.ui))
     IN  /\ ui_state' = r.ui
         /\ job_search' = r.js
         /\ applied' = IF r.updates = 0 THEN applied
                       ELSE Append(applied, [ state |-> get_state(r.ui),
                                              ncb |-> Len(callbacks) ])
         /\ delivered' = nt.delivered
         /\ tasks' = nt.tasks
         /\ ui_op' = [ op |-> "search_jobs", query |-> query, country |-> country,
                       api |-> api, text |-> r.text, raised |-> r.raised,
                       updates |-> r.updates, before |-> ui_state,
                       applied_before |-> Len(applied) ]
  /\ UNCHANGED <<callbacks, relay_vars, store_vars>>

\* The searches: a query or the empty string, with or without a country,
\* and the three answers of the API.
SearchQueries == {"q1", ""}
SearchCountries == {None, "CH"}
SearchApi == {"ok", "empty", "fail"}

\* A session's UI state under searches and the other mutator calls.
NextSearch ==
  \/ \E q \in SearchQueries, co \in SearchCountries, a \in SearchApi : SearchJobs(q, co, a)
  \/ \E op \in OtherOps : Mutate(op)

SpecSearch == Init /\ [][NextSearch]_vars

(* ------------------------------------------------------------------ *)
(* Sessions, the memory cache and the store (app.py, redis_session.py, *)
(* rtmt.py _websocket_handler)                                         *)
(* ------------------------------------------------------------------ *)

\* A fresh SessionState object: no client connection, no pending call, its
\* own UIState and JobSearchTool.  listeners is the listener list of its
\* UIState: the connections whose send_ui_update closure was registered.
SessionState(sid) ==
  [ session_id |-> sid, client_ws |-> None, listeners |-> << >>,
    pending_tools |-> EmptyPending, ui_state |-> InitialUIState,
    job_search |-> InitialJobSearch ]

\* A command sent to a store that cannot be reached raises RedisError.
RedisError == "RedisError"
RedisCommand(up) == IF up THEN "none" ELSE RedisError

\* Whether an exception leaves a try block with these except clauses.
Escapes(exc, handlers) ==
  exc # "none" /\ exc \notin handlers /\ "Exception" \notin handlers

\* RedisSessionManager.save_session: setex of the record, sadd to the set;
\* False on an error.  [value, raised, store]
save_session(store, sid, data, up) ==
  [ value |-> up,
    raised |-> Escapes(RedisCommand(up), {"PickleError", RedisError}),
    store |-> IF up THEN [keys |-> store.keys \cup {sid},
                          active |-> store.active \cup {sid},
                          data |-> [store.data EXCEPT ![sid] = data]]
              ELSE store ]

\* delete_session without its except clause.
delete_session_NoExcept(store, sid, up) ==
  [ value |-> up,
    raised |-> Escapes(RedisCommand(up), {}),
    store |-> IF up THEN [keys |-> store.keys \ {sid},
                          active |-> store.active \ {sid},
                          data |-> [store.data EXCEPT ![sid] = NoRecord]]
              ELSE store ]

\* RedisSessionManager.delete_session: delete of the record, srem; False on
\* an error.
delete_session(store, sid, up) ==
  [ value |-> up,
    raised |-> Escapes(RedisCommand(up), {RedisError}),
    store |-> IF up THEN [keys |-> store.keys \ {sid},
                          active |-> store.active \ {sid},
                          data |-> [store.data EXCEPT ![sid] = NoRecord]]
              ELSE store ]

\* RedisSessionManager.get_session(create_if_missing=False): the record,
\* which is saved again, or None (NoRecord); None on an error.
get_session(store, sid, up) ==
  [ value |-> IF up /\ sid \in store.keys THEN store.data[sid] ELSE NoRecord,
    raised |-> Escapes(RedisCommand(up), {RedisError}),
    store |-> IF up /\ sid \in store.keys
              THEN save_session(store, sid, store.data[sid], up).store ELSE store ]

\* RedisSessionManager.get_active_sessions: the members of the set; the
\* empty list on an error.
get_active_sessions(store, up) ==
  [ value |-> IF up THEN store.active ELSE {},
    raised |-> Escapes(RedisCommand(up), {RedisError}) ]

\* SessionState.save_to_redis: save_session inside "except Exception".
save_to_redis(store, session, up) ==
  LET r == save_session(store, session.session_id,
                        session_data(session.ui_state, session.job_search,
                                     session.pending_tools), up)
  IN  [ value |-> r.value,
        raised |-> Escapes(IF r.raised THEN RedisError ELSE "none", {"Exception"}),
        store |-> r.store ]

\* get_or_create_session without _cache_session.
get_or_create_session_NoCache(sid, cache, objs, store, up) ==
  [session |-> Len(objs) + 1, loaded |-> FALSE, raised |-> FALSE, cache |-> cache,
   sessions |-> Append(objs, SessionState(sid)),
   record |-> NoRecord,
   redis |-> save_to_redis(store, SessionState(sid), up).store]

\* get_or_create_session with a cache of one slot: whatever the id, the
\* session created first is returned.
get_or_create_session_OneSlot(sid, cache, objs, store, up) ==
  IF Len(objs) > 0
  THEN [session |-> 1, loaded |-> FALSE, raised |-> FALSE, cache |-> cache,
        sessions |-> objs, record |-> NoRecord, redis |-> store]
  ELSE [session |-> 1, loaded |-> FALSE, raised |-> FALSE,
        cache |-> [cache EXCEPT ![sid] = 1],
        sessions |-> <<SessionState(sid)>>, record |-> NoRecord,
        redis |-> save_to_redis(store, SessionState(sid), up).store]

\* The SessionState load_from_redis builds from a record: a new object
\* with the UI state and the JobSearchTool fields the record restores.
LoadedSession(sid, loaded) ==
  [SessionState(sid) EXCEPT !.ui_state = loaded.ui, !.job_search = loaded.js]

\* get_or_create_session: the cached object; else the one load_from_redis
\* builds from the record, cached; else (no record, the store failed, or
\* the record could not be restored) a new one, cached and saved.  The
\* function is synchronous: no other coroutine runs inside it.
get_or_create_session(sid, cache, objs, store, up) ==
  IF cache[sid] # 0
  THEN [session |-> cache[sid], loaded |-> FALSE, raised |-> FALSE,
        cache |-> cache, sessions |-> objs, record |-> NoRecord, redis |-> store]
  ELSE LET g == get_session(store, sid, up)
           \* load_from_redis wraps its body in "except Exception"
           l == IF g.value.found /\ ~g.raised THEN load_from_redis(g.value)
                ELSE [loaded |-> FALSE, js |-> InitialJobSearch, ui |-> InitialUIState]
           w == save_to_redis(g.store, SessionState(sid), up)
       IN  [ session |-> Len(objs) + 1, loaded |-> l.loaded,
             raised |-> IF l.loaded THEN FALSE ELSE w.raised,
             cache |-> [cache EXCEPT ![sid] = Len(objs) + 1],
             sessions |-> Append(objs, IF l.loaded THEN LoadedSession(sid, l)
                                       ELSE SessionState(sid)),
             record |-> IF l.loaded THEN g.value ELSE NoRecord,
             redis |-> IF l.loaded THEN g.store ELSE w.store ]

\* How _forward_messages can go before the pumps start.
ForwardOutcomes == {"token_failed", "unreachable", "handshake_failed", "connected"}
FailedOutcomes == ForwardOutcomes \ {"connected"}

\* The close code _forward_messages gives the client for a failed start.
FailureCode(outcome) == IF outcome = "unreachable" THEN TRY_AGAIN_LATER ELSE INTERNAL_ERROR

session_layer_unchanged == UNCHANGED <<session_vars, relay_vars, notify_vars>>

\* _websocket_handler up to "await ws.prepare(request)": without sid the
\* request is refused; else the session provider returns the SessionState.
\* An exception of the provider other than KeyError ends the handler.
Accept(c, sid, up) ==
  /\ conns[c].pc = "idle"
  /\ IF sid = None
     THEN /\ conns' = [conns EXCEPT ![c].pc = "rejected"]
          /\ last_op' = [op |-> "accept", conn |-> c, sid |-> sid, up |-> up,
                         raised |-> FALSE, value |-> None,
                         loaded |-> FALSE, record |-> NoRecord]
          /\ UNCHANGED <<_MEMORY_CACHE, sessions, redis>>
     ELSE LET r == get_or_create_session(sid, _MEMORY_CACHE, sessions, redis, up) IN
          /\ conns' = IF r.raised
                      THEN [conns EXCEPT ![c].pc = "crashed", ![c].sid = sid]
                      ELSE [conns EXCEPT ![c].pc = "preparing", ![c].sid = sid,
                                         ![c].session = r.session]
          /\ _MEMORY_CACHE' = r.cache
          /\ sessions' = r.sessions
          /\ redis' = r.redis
          /\ last_op' = [op |-> "accept", conn |-> c, sid |-> sid, up |-> up,
                         raised |-> r.raised, value |-> r.session,
                         loaded |-> r.loaded, record |-> r.record]
  /\ UNCHANGED <<closing, evicted>>
  /\ session_layer_unchanged

\* The ui_state_update frame send_ui_update sends for a snapshot.
UiStateUpdate(state) == [type |-> "ui_state_update", data |-> state]

\* A handler that sends no initial state.
InitialUpdate_None(session) == << >>

\* "await send_ui_update(session_state.ui_state.get_state())" right after
\* the listener is registered: the frames it sends on the socket, which
\* ws.prepare has just opened.
InitialUpdate(session) == << UiStateUpdate(get_state(session.ui_state)) >>

\* The connections after frames were sent to clients: c was forwarded a
\* backend frame (forwarded), the connections in notified were sent the
\* snapshot state by their listeners.  Only the first frame is kept.
FramesSent(cs, c, forwarded, notified, state) ==
  [ d \in DOMAIN cs |->
      IF cs[d].first # NoneSent THEN cs[d]
      ELSE IF d = c /\ forwarded THEN [cs[d] EXCEPT !.first = [type |-> "forwarded"]]
      ELSE IF d \in notified THEN [cs[d] EXCEPT !.first = UiStateUpdate(state)]
      ELSE cs[d] ]

\* _websocket_handler from the return of ws.prepare to the return of the
\* initial send_ui_update: the handle is stored, the session is saved, the
\* closure is registered as a listener and called with the snapshot.
Attach(c, up) ==
  /\ conns[c].pc = "preparing"
  /\ LET s == conns[c].session
         w == save_to_redis(redis, sessions[s], up)
     IN  /\ sessions' = [sessions EXCEPT
                           ![s].client_ws = c,
                           ![s].listeners = IF w.raised THEN @ ELSE Append(@, c)]
         /\ redis' = w.store
         /\ conns' = [conns EXCEPT
                        ![c].pc = IF w.raised THEN "crashed" ELSE "attached",
                        ![c].ws = "open",
                        ![c].first = IF w.raised \/ InitialUpdate(sessions[s]) = << >>
                                     THEN @ ELSE InitialUpdate(sessions[s])[1]]
         /\ last_op' = [op |-> "attach", conn |-> c, sid |-> conns[c].sid,
                        up |-> up, raised |-> w.raised, value |-> w.value]
  /\ UNCHANGED <<_MEMORY_CACHE, closing, evicted>>
  /\ session_layer_unchanged

\* _forward_messages starts for the connection.  A failed start closes the
\* client with its code (close() on a closed socket does nothing) and the
\* function returns; else the pumps run.
ForwardStart(c, outcome) ==
  /\ conns[c].pc = "attached"
  /\ IF outcome \in FailedOutcomes
     THEN conns' = [conns EXCEPT
            ![c].pc = "finally", ![c].outcome = outcome, ![c].ws = "closed",
            ![c].code = IF conns[c].ws = "open" THEN FailureCode(outcome) ELSE @]
     ELSE conns' = [conns EXCEPT ![c].pc = "forwarding", ![c].outcome = outcome]
  /\ last_op' = [op |-> "forward_start", conn |-> c, sid |-> conns[c].sid,
                 up |-> TRUE, raised |-> FALSE, value |-> None]
  /\ UNCHANGED <<_MEMORY_CACHE, sessions, redis, closing, evicted>>
  /\ session_layer_unchanged

\* The pumps end: the client left or was closed, or the upstream side closed
\* and the relay closed the client.
ForwardEnds(c) ==
  /\ conns[c].pc = "forwarding"
  /\ conns' = [conns EXCEPT ![c].pc = "finally", ![c].ws = "closed"]
  /\ last_op' = [op |-> "forward_ends", conn |-> c, sid |-> conns[c].sid,
                 up |-> TRUE, raised |-> FALSE, value |-> None]
  /\ UNCHANGED <<_MEMORY_CACHE, sessions, redis, closing, evicted>>
  /\ session_layer_unchanged

\* The finally block of _websocket_handler: the handle is cleared and the
\* session is saved.  The listener stays registered.
Finish(c, up) ==
  /\ conns[c].pc = "finally"
  /\ LET w == save_to_redis(redis, sessions[conns[c].session], up) IN
     /\ redis' = w.store
     /\ conns' = [conns EXCEPT ![c].pc = IF w.raised THEN "crashed" ELSE "done"]
     /\ last_op' = [op |-> "finish", conn |-> c, sid |-> conns[c].sid,
                    up |-> up, raised |-> w.raised, value |-> w.value]
  /\ sessions' = [sessions EXCEPT ![conns[c].session].client_ws = None]
  /\ UNCHANGED <<_MEMORY_CACHE, closing, evicted>>
  /\ session_layer_unchanged

\* cleanup_session: for a cached session the close of its client_ws is
\* scheduled as a task if the socket is not closed, and the cache entry is
\* deleted; the record is deleted from the store.
Cleanup(sid, up) ==
  /\ LET s == _MEMORY_CACHE[sid]
         d == delete_session(redis, sid, up)
     IN  /\ closing' = IF /\ s # 0
                          /\ sessions[s].client_ws # None
                          /\ conns[sessions[s].client_ws].ws # "closed"
                       THEN closing \cup {sessions[s].client_ws}
                       ELSE closing
         /\ evicted' = (evicted \/ s # 0)
         /\ redis' = d.store
         /\ last_op' = [op |-> "cleanup_session", sid |-> sid, session |-> s,
                        up |-> up, raised |-> d.raised, value |-> d.value]
  /\ _MEMORY_CACHE' = [_MEMORY_CACHE EXCEPT ![sid] = 0]
  /\ UNCHANGED <<sessions, conns>>
  /\ session_layer_unchanged

\* The task cleanup_session created runs client_ws.close().
CloseTask(c) ==
  /\ c \in closing
  /\ closing' = closing \ {c}
  /\ conns' = [conns EXCEPT ![c].ws = "closed"]
  /\ last_op' = [op |-> "close_task", conn |-> c, sid |-> conns[c].sid,
                 up |-> TRUE, raised |-> FALSE, value |-> None]
  /\ UNCHANGED <<_MEMORY_CACHE, sessions, redis, evicted>>
  /\ session_layer_unchanged

\* RedisSessionManager.cleanup_expired_sessions: for each active id, the
\* membership is removed when the record is gone (its key expired) and the
\* session is deleted when its last activity is older than the expiry.
\* With the store unreachable get_active_sessions gives the empty list and
\* nothing is done.
cleanup_expired_sessions(store, expired, up) ==
  LET active == get_active_sessions(store, up).value
      gone == {sid \in active : sid \notin store.keys}
      old == {sid \in active : sid \in store.keys /\ sid \in expired}
  IN  [ keys |-> store.keys \ old, active |-> (store.active \ gone) \ old,
        data |-> [sid \in SessionIds |->
                    IF sid \in old THEN NoRecord ELSE store.data[sid]] ]

\* periodic_session_cleanup: "expired = set(_MEMORY_CACHE.keys()) -
\* set(active_sessions)" and the deletion of these entries.
SweepCache(cache, listing, up) ==
  [sid \in DOMAIN cache |-> IF sid \notin listing THEN 0 ELSE cache[sid]]

\* One pass of periodic_session_cleanup after its sleep.  Nothing in the
\* pass suspends, so it runs as one step.  expired are the sessions whose
\* last activity is older than the expiry.
Sweep(expired, up) ==
  /\ LET store == cleanup_expired_sessions(redis, expired, up)
         listing == get_active_sessions(store, up)
     IN  /\ redis' = store
         /\ _MEMORY_CACHE' = SweepCache(_MEMORY_CACHE, listing.value, up)
         /\ last_op' = [op |-> "sweep", sid |-> None, up |-> up,
                        raised |-> FALSE, value |-> listing.value,
                        cache_before |-> _MEMORY_CACHE]
  /\ evicted' = (evicted \/ _MEMORY_CACHE' # _MEMORY_CACHE)
  /\ UNCHANGED <<sessions, conns, closing>>
  /\ session_layer_unchanged

\* The key of a record expires in the store (setex); its membership in the
\* active set stays.
KeyExpires(sid) ==
  /\ sid \in redis.keys
  /\ redis' = [redis EXCEPT !.keys = @ \ {sid}, !.data[sid] = NoRecord]
  /\ last_op' = [op |-> "key_expires", sid |-> sid, up |-> TRUE,
                 raised |-> FALSE, value |-> None]
  /\ UNCHANGED <<_MEMORY_CACHE, sessions, conns, closing, evicted>>
  /\ session_layer_unchanged

\* Two connections and the explicit cleanup, the store reachable; the
\* store's failures are the subject of SpecStore.
NextSessions ==
  \/ \E c \in ConnIds, sid \in SessionIds \cup {None} : Accept(c, sid, TRUE)
  \/ \E c \in ConnIds : Attach(c, TRUE)
  \/ \E c \in ConnIds, outcome \in ForwardOutcomes : ForwardStart(c, outcome)
  \/ \E c \in ConnIds : ForwardEnds(c)
  \/ \E c \in ConnIds : Finish(c, TRUE)
  \/ \E sid \in SessionIds : Cleanup(sid, TRUE)
  \/ \E c \in ConnIds : CloseTask(c)

SpecSessions == InitSessions /\ [][NextSessions]_vars

\* The store and the sweep: one connection, both sessions, the store
\* reachable or not at every operation that uses it.
NextStore ==
  \/ \E sid \in SessionIds, up \in BOOLEAN : Accept("conn_1", sid, up)
  \/ \E up \in BOOLEAN : Attach("conn_1", up)
  \/ ForwardStart("conn_1", "connected")
  \/ ForwardEnds("conn_1")
  \/ \E up \in BOOLEAN : Finish("conn_1", up)
  \/ \E sid \in SessionIds, up \in BOOLEAN : Cleanup(sid, up)
  \/ CloseTask("conn_1")
  \/ \E expired \in SUBSET SessionIds, up \in BOOLEAN : Sweep(expired, up)
  \/ \E sid \in SessionIds : KeyExpires(sid)

SpecStore == InitSessions /\ [][NextStore]_vars

\* The connections a UI-state mutation sends a ui_state_update on: the
\* send_ui_update closures in the listener list of the session's UIState,
\* each sending on its own socket unless that socket is closed.
NotifiedConnections(session) ==
  { session.listeners[i] : i \in 1..Len(session.listeners) }

\* One iteration of a pump of connection c for a TEXT frame:
\* _process_message_to_server or _process_message_to_client looks the
\* session up by the connection's id with the session provider and works on
\* that object; a handled UI message is followed by save_to_redis; the
\* frames that result go out on the connection's own two sockets.
SessionFrameStep(c, dir, msg, cs) ==
  /\ \E g \in {get_or_create_session(conns[c].sid, _MEMORY_CACHE, sessions,
                                      redis, TRUE)} :
     \E s \in {g.sessions[g.session]} :
     \E r \in {IF dir = "c2s"
               THEN ProcessMessageToServer(msg, s.job_search, s.ui_state)
                      @@ [pending |-> s.pending_tools, up |-> << >>]
               ELSE ProcessMessageToClient(msg, s.pending_tools, s.job_search,
                                           s.ui_state, "open")
                      @@ [ui_handled |-> FALSE]} :
     LET saves == r.ui_handled /\ UiMessageSaves(msg)
         notified == IF r.ui # s.ui_state
                     THEN { l \in NotifiedConnections(s) : conns[l].ws = "open" }
                     ELSE {}
     IN  /\ sessions' = [g.sessions EXCEPT ![g.session].pending_tools = r.pending,
                                           ![g.session].job_search = r.js,
                                           ![g.session].ui_state = r.ui]
         /\ _MEMORY_CACHE' = g.cache
         /\ redis' = IF saves
                     THEN save_to_redis(g.redis,
                            [s EXCEPT !.pending_tools = r.pending,
                                      !.job_search = r.js, !.ui_state = r.ui],
                            TRUE).store
                     ELSE g.redis
         /\ last_op' = [op |-> "frame", conn |-> c, sid |-> conns[c].sid,
                        up |-> TRUE, raised |-> FALSE, value |-> g.session,
                        dir |-> dir,
                        sent_on |-> (IF r.out # << >> \/ r.up # << >> THEN {c} ELSE {})
                                      \cup notified]
         /\ conns' = FramesSent(cs, c, dir = "s2c" /\ r.out # << >>, notified,
                                get_state(r.ui))
  /\ UNCHANGED <<closing, evicted>>
  /\ session_layer_unchanged

\* One frame of an open, relaying connection, processed in one piece.
SessionFrame(c, dir, msg) ==
  /\ conns[c].pc = "forwarding"
  /\ conns[c].ws = "open"
  /\ SessionFrameStep(c, dir, msg, conns)

\* Client frames of the runs with two sessions: a reset, a search, audio,
\* an undecodable frame.
IsolationClientMessages ==
  { [Frame0 EXCEPT !.type = UI_RESET_STATE],
    [Frame0 EXCEPT !.type = UI_MANUAL_SEARCH, !.data = "full", !.api = "ok"],
    [Frame0 EXCEPT !.type = INPUT_AUDIO_BUFFER_APPEND],
    [Frame0 EXCEPT !.json = "bad"] }

\* Backend frames, likewise: a tool call announced, completed by a search
\* that succeeds or by arguments the handler fails on, response.done.
IsolationBackendMessages ==
  { [Frame0 EXCEPT !.type = CONVERSATION_ITEM_CREATED, !.item_type = FUNCTION_CALL,
                   !.call_id = "call_1", !.prev = "item_1"],
    [Frame0 EXCEPT !.type = RESPONSE_OUTPUT_DONE, !.item_type = FUNCTION_CALL,
                   !.call_id = "call_1", !.name = "search_jobs",
                   !.args = "valid", !.api = "ok"],
    [Frame0 EXCEPT !.type = RESPONSE_OUTPUT_DONE, !.item_type = FUNCTION_CALL,
                   !.call_id = "call_1", !.name = "search_jobs",
                   !.args = "norequired"],
    [Frame0 EXCEPT !.type = RESPONSE_DONE] }

\* Two connections, each of either session, relaying frames.
NextIsolation ==
  \/ \E c \in ConnIds, sid \in SessionIds : Accept(c, sid, TRUE)
  \/ \E c \in ConnIds : Attach(c, TRUE)
  \/ \E c \in ConnIds, outcome \in {"connected", "unreachable"} : ForwardStart(c, outcome)
  \/ \E c \in ConnIds, m \in IsolationClientMessages : SessionFrame(c, "c2s", m)
  \/ \E c \in ConnIds, m \in IsolationBackendMessages : SessionFrame(c, "s2c", m)
  \/ \E c \in ConnIds : ForwardEnds(c)
  \/ \E c \in ConnIds : Finish(c, TRUE)

SpecIsolation == Init /\ [][NextIsolation]_vars

\* The process ends and starts again: the handlers are gone, the cache of
\* the new process is empty, the store is the one the old process left.
Restart ==
  /\ \A c \in ConnIds : conns[c].pc \in {"idle", "rejected", "done"}
  /\ \E sid \in SessionIds : _MEMORY_CACHE[sid] # 0
  /\ _MEMORY_CACHE' = [sid \in SessionIds |-> 0]
  /\ last_op' = [op |-> "restart", sid |-> None, up |-> TRUE, raised |-> FALSE,
                 value |-> None]
  /\ UNCHANGED <<sessions, redis, conns, closing, evicted>>
  /\ session_layer_unchanged

\* Client frames of the runs that save and restore a session: a search,
\* the selection of a job the API has or has no result for, the way back to
\* the result list.
RestoreClientMessages ==
  { [Frame0 EXCEPT !.type = UI_MANUAL_SEARCH, !.data = "full", !.api = "ok"],
    [Frame0 EXCEPT !.type = UI_SELECT_JOB, !.data = "full", !.api = "ok"],
    [Frame0 EXCEPT !.type = UI_SELECT_JOB, !.data = "full", !.api = "empty"],
    [Frame0 EXCEPT !.type = UI_VIEW_SEARCH_RESULTS] }

\* Backend frames, likewise: a tool call announced, and completed as a
\* search whose query is the empty string.
RestoreBackendMessages ==
  { [Frame0 EXCEPT !.type = CONVERSATION_ITEM_CREATED, !.item_type = FUNCTION_CALL,
                   !.call_id = "call_1", !.prev = "item_1"],
    [Frame0 EXCEPT !.type = RESPONSE_OUTPUT_DONE, !.item_type = FUNCTION_CALL,
                   !.call_id = "call_1", !.name = "search_jobs",
                   !.args = "emptyquery", !.api = "ok"] }

\* One session over two connections and a restart of the process.
NextRestore ==
  \/ \E c \in ConnIds : Accept(c, "sid_1", TRUE)
  \/ \E c \in ConnIds : Attach(c, TRUE)
  \/ \E c \in ConnIds : ForwardStart(c, "connected")
  \/ \E c \in ConnIds, m \in RestoreClientMessages : SessionFrame(c, "c2s", m)
  \/ \E c \in ConnIds, m \in RestoreBackendMessages : SessionFrame(c, "s2c", m)
  \/ \E c \in ConnIds : ForwardEnds(c)
  \/ \E c \in ConnIds : Finish(c, TRUE)
  \/ Restart

SpecRestore == Init /\ [][NextRestore]_vars


\* The relay with the scheduling of the event loop: a pump whose loop can
\* end does end, and gather's result is delivered.  The peers are under no
\* obligation.
FairSpec ==
  /\ Spec
  /\ WF_vars(ClientLoopEnds)
  /\ WF_vars(ServerLoopEnds)
  /\ WF_vars(GatherReturns)
  /\ WF_vars(GatherRaises)

(* ------------------------------------------------------------------ *)
(* Properties                                                         *)
(* ------------------------------------------------------------------ *)

\* The last step processed a backend event of this type.
FromBackend(type) ==
  /\ msg_in.dir = "s2c"
  /\ msg_in.msg.json = "object"
  /\ msg_in.msg.type = type

\* The last step processed a client message of this type.
FromClient(type) ==
  /\ msg_in.dir = "c2s"
  /\ msg_in.msg.json = "object"
  /\ msg_in.msg.type = type

\* The last step processed the completion event of a function call whose
\* call id had a PendingToolCall.
CompletionOfPending ==
  /\ FromBackend("response.output_item.done")
  /\ msg_in.msg.item_type = "function_call"
  /\ msg_in.msg.call_id \in DOMAIN pending_before

IsOutputFor(m, call_id) ==
  /\ m.type = "conversation.item.create"
  /\ m.item_type = "function_call_output"
  /\ m.call_id = call_id

\* The function_call_output frames for call_id among the frames sent upstream.
OutputsFor(call_id) ==
  { i \in 1..Len(to_server) : IsOutputFor(to_server[i], call_id) }

IsErrorText(text) ==
  text \in { "error:tool_execution_failed", "error:api_request_failed",
             "error:no_active_search_results" }

\* C1: when a call id has a PendingToolCall, processing its completion event
\* (response.output_item.done with a function_call item) sends exactly one
\* function_call_output frame with that call id upstream, whatever the tool
\* name, the argument text and the handler's outcome; pending_tools, a map
\* keyed by call id, never holds two entries of one call id.  Stated for an
\* upstream connection that is open, so that the frame can be sent at all.
C1_ExactlyOneOutputPerCompletion ==
  (CompletionOfPending /\ server_ws = "open")
    => Cardinality(OutputsFor(msg_in.msg.call_id)) = 1

\* C2 as the specification states it: a handler is invoked at most once per
\* call id, so no step invokes a handler for a call id that a handler was
\* invoked for before.
C2_AtMostOncePerCallId ==
  [][ \A i \in 1..Len(invoked') : invoked'[i].call_id \notin dispatched ]_vars

\* C2, amended: a handler is invoked, and the relay sends a
\* function_call_output upstream, only in a step that processes the
\* completion event of a call id that has a PendingToolCall when the step
\* begins; the step invokes at most one handler and sends at most one
\* function_call_output, both for that call id, and removes the entry.  So
\* each recorded PendingToolCall is dispatched at most once, and never by a
\* start, argument-delta or argument-done event.
C2_DispatchOnlyAtCompletionOfPending ==
  LET outputs == { i \in 1..Len(to_server) :
                     to_server[i].item_type = "function_call_output" }
  IN  (msg_in.dir # "c2s" /\ (invoked # << >> \/ outputs # {}))
        => /\ CompletionOfPending
           /\ msg_in.msg.call_id \notin DOMAIN pending_tools
           /\ Len(invoked) <= 1
           /\ Cardinality(outputs) <= 1
           /\ \A i \in 1..Len(invoked) : invoked[i].call_id = msg_in.msg.call_id
           /\ \A i \in outputs : to_server[i].call_id = msg_in.msg.call_id

\* The completion event of a pending call_1 invoked one handler and sent
\* one function_call_output for it, after call_2 had been dispatched.
C2_Witness ==
  /\ CompletionOfPending
  /\ msg_in.msg.call_id = "call_1"
  /\ Len(invoked) = 1
  /\ invoked[1].call_id = "call_1"
  /\ Cardinality(OutputsFor("call_1")) = 1
  /\ "call_1" \notin DOMAIN pending_tools
  /\ "call_2" \in dispatched

\* C3: for every client session.update, whatever its content, the frame the
\* relay sends upstream in its place has session.tools equal to the registered
\* tool schemas, and tool_choice "auto" exactly when that list is non-empty.
C3_ToolsAlwaysInjected ==
  (FromClient("session.update") /\ server_ws = "open")
    => /\ Len(to_server) = 1
       /\ to_server[1].type = "session.update"
       /\ to_server[1].session.kind = "object"
       /\ to_server[1].session.has_tools
       /\ to_server[1].session.tools = ToolSchemas
       /\ (to_server[1].session.f["tool_choice"] = "auto") <=> (Len(ToolSchemas) > 0)

\* The session fields C4 names; session.tools is kept beside the map f.
C4_NamedFields ==
  { "instructions", "temperature", "max_response_output_tokens",
    "disable_audio", "voice", "tool_choice" }

\* The fields the server's configuration sets in this deployment.
C4_ServerSetFields == { "instructions", "voice", "tool_choice" }

\* Two session.update frames that differ at most in the fields F and in
\* session.tools.  A missing session counts as the empty object.
DifferOnlyIn(a, b, F) ==
  /\ (a.session.kind = "null") <=> (b.session.kind = "null")
  /\ \A k \in SessionFields \ F : a.session.f[k] = b.session.f[k]

\* What _process_message_to_server returns for a session.update.
UpstreamOf(m) == ProcessMessageToServer(m, job_search, ui_state).out

\* C4 as the specification states it: the upstream frame is the same for
\* every client frame that differs from the one processed only in
\* instructions, temperature, maximum output tokens, audio and voice
\* settings, tools and tool_choice.
C4_AllNamedFieldsFromServer ==
  (FromClient("session.update") /\ server_ws = "open")
    => \A g \in SessionUpdates :
         DifferOnlyIn(msg_in.msg, g, C4_NamedFields) => UpstreamOf(g) = to_server

\* C4, amended: instructions, voice, tools and tool_choice of the upstream
\* frame do not depend on the client's: client frames that differ only in
\* those yield the same upstream frame.  temperature,
\* max_response_output_tokens and disable_audio, which the configuration
\* leaves unset, reach upstream as the client sent them.
C4_ServerSetFieldsFromServer ==
  (FromClient("session.update") /\ server_ws = "open")
    => /\ \A g \in SessionUpdates :
            DifferOnlyIn(msg_in.msg, g, C4_ServerSetFields)
              => UpstreamOf(g) = to_server
       /\ Len(to_server) = 1
       /\ \A k \in SessionFields \ C4_ServerSetFields :
            to_server[1].session.f[k] = msg_in.msg.session.f[k]

\* A client frame that sets every field and brings its own tools went
\* upstream with the server's voice and the client's temperature.
C4_Witness ==
  /\ FromClient("session.update")
  /\ msg_in.msg.session.has_tools
  /\ \A k \in SessionFields : msg_in.msg.session.f[k] = "client"
  /\ Len(to_server) = 1
  /\ to_server[1].session.f["voice"] = "echo"
  /\ to_server[1].session.f["temperature"] = "client"

\* C5: a client frame of type reset_state, manual_search, select_job or
\* view_search_results is handed to the session's handle_ui_message and
\* nothing is sent upstream for it, whether or not the handling succeeds.
C5_UiMessagesStayLocal ==
  (msg_in.dir = "c2s" /\ msg_in.msg.json = "object"
     /\ msg_in.msg.type \in { "reset_state", "manual_search", "select_job",
                              "view_search_results" })
    => ui_handled /\ to_server = << >>

\* A manual_search whose data is not an object (handling fails) and a
\* view_search_results were both kept from an open upstream connection.
C5_Witness ==
  /\ server_ws = "open"
  /\ ui_handled
  /\ to_server = << >>
  /\ \/ FromClient("manual_search") /\ msg_in.msg.data = "nonobject"
     \/ FromClient("view_search_results")

\* The events of a function call that the relay keeps from the client.
IsFunctionCallEvent(m) ==
  /\ m.json = "object"
  /\ \/ m.type = "response.output_item.added" /\ m.item_type = "function_call"
     \/ m.type = "conversation.item.created"
          /\ m.item_type \in {"function_call", "function_call_output"}
     \/ m.type = "response.function_call_arguments.delta"
     \/ m.type = "response.function_call_arguments.done"
     \/ m.type = "response.output_item.done" /\ m.item_type = "function_call"

\* C6: no frame sent to the client is a function-call start, a
\* function_call_output item, an argument-delta or argument-done event, or a
\* function call's completion event, for every sequence of backend events
\* and whatever the outcome of the dispatch.  Stated for events whose call
\* id is a string or missing.
C6_NoFunctionCallEventToClient ==
  msg_in.msg.call_id # Unhashable
    => \A i \in 1..Len(to_client) : ~IsFunctionCallEvent(to_client[i])

\* The handler of the call that the last step completed raised.
HandlerRaised ==
  /\ CompletionOfPending
  /\ msg_in.msg.name \in ToolNames
  /\ msg_in.msg.args = "norequired"

\* C7: when a registered handler raises for a pending call id, the relay
\* sends upstream a function_call_output for that call id whose output is an
\* error object, sends the client nothing, and both connections and both
\* pumps are as they were: the relay goes on relaying.
C7_HandlerErrorIsReported ==
  (HandlerRaised /\ server_ws = "open")
    => /\ to_server = << FunctionCallOutput(msg_in.msg.call_id,
                                            "error:tool_execution_failed") >>
       /\ IsErrorText(to_server[1].text)
       /\ to_client = << >>
       /\ client_ws \in {"open", "lost"}
       /\ c2s = "run" /\ s2c = "run" /\ forward = "run"
       /\ msg_in.msg.call_id \notin DOMAIN pending_tools

\* A handler raised with both connections open, and the error went upstream.
C7_Witness ==
  /\ HandlerRaised
  /\ Len(invoked) = 1
  /\ client_ws = "open" /\ server_ws = "open"
  /\ Cardinality(OutputsFor(msg_in.msg.call_id)) = 1
  /\ c2s = "run" /\ s2c = "run"

\* C8: when the completion event of a pending call id names a tool that is
\* not registered, or carries arguments that do not parse, the relay sends an
\* error-shaped function_call_output for that call id upstream and the
\* session goes on.
C8_BadCallIsReported ==
  (CompletionOfPending /\ server_ws = "open"
     /\ Truthy(msg_in.msg.name) /\ Truthy(msg_in.msg.args)
     /\ (msg_in.msg.name \notin ToolNames \/ msg_in.msg.args = "malformed"))
    => /\ \E i \in OutputsFor(msg_in.msg.call_id) : IsErrorText(to_server[i].text)
       /\ s2c = "run" /\ forward = "run"

\* C9: a response.done that arrives while pending_tools is not empty empties
\* it and sends exactly one response.create upstream, however many calls
\* were pending.
C9_OneResponseCreate ==
  (FromBackend("response.done") /\ DOMAIN pending_before # {}
     /\ server_ws = "open")
    => /\ pending_tools = EmptyPending
       /\ to_server = <<ResponseCreate>>
       /\ Cardinality({ i \in 1..Len(to_server) :
                          to_server[i].type = "response.create" }) = 1

\* response.done arrived while two calls were pending.
C9_Witness ==
  /\ FromBackend("response.done")
  /\ DOMAIN pending_before = {"call_1", "call_2"}
  /\ pending_tools = EmptyPending
  /\ to_server = <<ResponseCreate>>

\* A connection of the running relay has closed or broken.
LegDown ==
  /\ forward = "run"
  /\ client_ws \in {"lost", "closed"} \/ server_ws \in {"lost", "closed"}

\* Both connections are closed and both pumps have ended.
BothLegsClosed ==
  /\ client_ws = "closed" /\ server_ws = "closed"
  /\ c2s \in {"done", "failed"} /\ s2c \in {"done", "failed"}

\* C10: whenever either connection closes or errors, the relay eventually
\* closes the other one and both pumps end; and _forward_messages never
\* returns with one of the two connections open.
C10_BothLegsEventuallyClose ==
  /\ [](LegDown => <>BothLegsClosed)
  /\ [](forward = "stopped" => client_ws # "open" /\ server_ws # "open")

\* The client went away first; gather returned after both pumps ended.
C10_Witness ==
  /\ BothLegsClosed
  /\ c2s = "done" /\ s2c = "done"
  /\ forward = "stopped"
  /\ close_code = 0

\* The notification of mutator call n has run its course: no task of it is
\* still to start or waiting.
NotificationOver(n) ==
  \A t \in 1..Len(tasks) :
    tasks[t].n = n => tasks[t].status \in {"done", "failed"}

\* The calls of callback l with the snapshot of mutator call n.
DeliveriesOf(l, n) ==
  { k \in 1..Len(delivered[l]) : delivered[l][k].n = n }

\* C13: each listener receives the snapshots in the order of the mutator
\* calls (never an earlier call's snapshot after a later one's), and every
\* snapshot it receives is the full state right after one mutator call.
C13_SnapshotsInCallOrder ==
  \A l \in 1..Len(delivered) :
    /\ \A i, j \in 1..Len(delivered[l]) :
         i < j => delivered[l][i].n <= delivered[l][j].n
    /\ \A i \in 1..Len(delivered[l]) :
         delivered[l][i].n >= 1
           => delivered[l][i].state = applied[delivered[l][i].n].state

\* C14: when the notification of a mutator call is over, every callback
\* that was registered at the call has received it, whether or not another
\* callback raised or waited.
C14_OtherListenersStillReceive ==
  \A n \in 1..Len(applied) :
    NotificationOver(n)
      => \A l \in 1..applied[n].ncb : DeliveriesOf(l, n) # {}

\* C15: a mutator call changes all its fields and then gives every
\* registered callback exactly one notification, whose payload is the
\* state after the call; update_job_detail sets the job and the view mode
\* "detail" together, and reset_state leaves the initial state.
C15_OneFullSnapshotPerMutation ==
  /\ \A n \in 1..Len(applied) :
       NotificationOver(n)
         => \A l \in 1..applied[n].ncb :
              /\ Cardinality(DeliveriesOf(l, n)) = 1
              /\ \A k \in DeliveriesOf(l, n) :
                   delivered[l][k].state = applied[n].state
  /\ (ui_op.op = "mutate" /\ ui_op.call.op = "update_job_detail")
       => /\ ui_state.current_job = ui_op.call.job
          /\ ui_state.view_mode = "detail"
          /\ applied[Len(applied)].state = ui_state
  /\ (ui_op.op = "mutate" /\ ui_op.call.op = "reset_state")
       => /\ ui_state = InitialUIState
          /\ applied[Len(applied)].state = InitialUIState

\* C16: after update_search(query, country, results, total_count),
\* get_state has view_mode "search", the query, country and total_count
\* given, and as results the first MAX_RESULTS (5) entries of the list
\* given, in its order.
C16_UpdateSearchSnapshot ==
  (ui_op.op = "mutate" /\ ui_op.call.op = "update_search")
    => LET snap == get_state(ui_state)
           given == ui_op.call.results
       IN  /\ snap.view_mode = "search"
           /\ snap.query = ui_op.call.query
           /\ snap.country = ui_op.call.country
           /\ snap.total_count = ui_op.call.total_count
           /\ snap.has_results
           /\ Len(snap.results) = (IF Len(given) > 5 THEN 5 ELSE Len(given))
           /\ \A i \in 1..Len(snap.results) : snap.results[i] = given[i]

\* update_search was given seven results and five are in the snapshot.
C16_Witness ==
  /\ ui_op.op = "mutate"
  /\ ui_op.call.op = "update_search"
  /\ Len(ui_op.call.results) = 7
  /\ Len(get_state(ui_state).results) = 5
  /\ get_state(ui_state).total_count = 42

\* C17: after a reset_state UI message, get_state is the snapshot of a
\* fresh UI state, current_job, search_query and search_country of the
\* business logic are cleared, and one more reset changes nothing.
C17_ResetIsInitialAndIdempotent ==
  FromClient("reset_state")
    => /\ ui_handled
       /\ get_state(ui_state) = get_state(InitialUIState)
       /\ job_search = InitialJobSearch
       /\ reset_all_state(job_search, ui_state)
            = [js |-> job_search, ui |-> ui_state]

\* A reset_state message was processed after a tool handler had run.
C17_Witness ==
  /\ FromClient("reset_state")
  /\ dispatched # {}
  /\ ui_state = InitialUIState
  /\ job_search = InitialJobSearch

Active(c) == conns[c].pc \in {"attached", "forwarding", "finally"}
ActiveOn(i) == {c \in ConnIds : Active(c) /\ conns[c].session = i}

\* The connections whose handler got a SessionState for the id.
HoldersOf(sid) == {c \in ConnIds : conns[c].sid = sid /\ conns[c].session # 0}

\* The SessionState objects created for the id.
ObjectsOf(sid) == {i \in 1..Len(sessions) : sessions[i].session_id = sid}

\* C11: a session has at most one active relay connection at a time, its
\* client_ws handle designates that connection and is None exactly when the
\* session has none, and as long as the session stays cached every
\* connection with the same id is given the same SessionState object.
C11_OneActiveConnectionPerSession ==
  /\ \A i \in 1..Len(sessions) :
       /\ Cardinality(ActiveOn(i)) <= 1
       /\ (sessions[i].client_ws = None) <=> (ActiveOn(i) = {})
       /\ sessions[i].client_ws # None => sessions[i].client_ws \in ActiveOn(i)
  /\ ~evicted =>
       \A sid \in SessionIds : \A c1, c2 \in HoldersOf(sid) :
         conns[c1].session = conns[c2].session

\* C12: connection attempts for the same uncached id, however they
\* interleave, are all given the one SessionState the cache holds for the
\* id, and no other object exists for it.
C12_ConcurrentGetOrCreateSameInstance ==
  ~evicted =>
    \A sid \in SessionIds :
      HoldersOf(sid) # {} =>
        /\ _MEMORY_CACHE[sid] # 0
        /\ ObjectsOf(sid) = {_MEMORY_CACHE[sid]}
        /\ \A c \in HoldersOf(sid) : conns[c].session = _MEMORY_CACHE[sid]

\* Two attempts for the same id are both waiting in ws.prepare: both called
\* the session provider before either went on.
C12_Witness ==
  /\ ~evicted
  /\ conns["conn_1"].pc = "preparing"
  /\ conns["conn_2"].pc = "preparing"
  /\ conns["conn_1"].sid = conns["conn_2"].sid
  /\ conns["conn_1"].session = conns["conn_2"].session

\* C19: once the handler of a connection whose upstream start failed has
\* returned, the client was closed with an error code, the session's handle
\* is not that connection, its send_ui_update is no longer among the
\* listeners of the session, and (the session staying cached) the id has
\* one SessionState object.
C19_FailedConnectLeavesNothing ==
  \A c \in ConnIds :
    (conns[c].pc = "done" /\ conns[c].outcome \in FailedOutcomes) =>
      /\ conns[c].ws = "closed"
      /\ conns[c].code \in {INTERNAL_ERROR, TRY_AGAIN_LATER}
      /\ sessions[conns[c].session].client_ws # c
      /\ \A k \in 1..Len(sessions[conns[c].session].listeners) :
           sessions[conns[c].session].listeners[k] # c
      /\ ~evicted => Cardinality(ObjectsOf(conns[c].sid)) = 1

\* C20: right after cleanup_session(sid) the cache has no entry for the id,
\* the store has neither its record nor its membership in the active set,
\* and every open client connection of the session that was cached is
\* closed or has its close scheduled.
C20_CleanupRemovesAndCloses ==
  last_op.op = "cleanup_session" =>
    /\ _MEMORY_CACHE[last_op.sid] = 0
    /\ last_op.up => last_op.sid \notin redis.keys
    /\ last_op.up => last_op.sid \notin redis.active
    /\ \A c \in ConnIds :
         (conns[c].session = last_op.session /\ conns[c].ws = "open") =>
           c \in closing

(* ------------------------------------------------------------------ *)
(* Frames: response.done, pass-through, pending calls, persistence    *)
(* ------------------------------------------------------------------ *)

\* The items of an output list that are no function_call, in their order.
NonFunctionCallItems(items) ==
  SelectSeq(items, LAMBDA t : t # "function_call")

\* C26: the response.done frame that reaches the client has no
\* function_call item in response.output, and what is left of the list
\* are the other items of the original in their original order.
C26_ResponseDoneHasNoFunctionCall ==
  (FromBackend("response.done") /\ to_client # << >>)
    => /\ Len(to_client) = 1
       /\ to_client[1].type = "response.done"
       /\ \A i \in 1..Len(to_client[1].output) :
            to_client[1].output[i] # "function_call"
       /\ to_client[1].output = NonFunctionCallItems(msg_in.msg.output)

\* C27: the step that handles a view_search_results message (reset_view)
\* ends in view mode "search" with no detail item, and leaves the query,
\* the country, the results and the total count as they were.
C27_ResetViewKeepsSearch ==
  [][ (msg_in'.dir = "c2s" /\ msg_in'.msg.json = "object"
         /\ msg_in'.msg.type = "view_search_results")
      => /\ ui_handled'
         /\ get_state(ui_state').view_mode = "search"
         /\ get_state(ui_state').current_job = None
         /\ get_state(ui_state').query = get_state(ui_state).query
         /\ get_state(ui_state').country = get_state(ui_state).country
         /\ get_state(ui_state').has_results = get_state(ui_state).has_results
         /\ get_state(ui_state').results = get_state(ui_state).results
         /\ get_state(ui_state').total_count = get_state(ui_state).total_count
         /\ job_search' = job_search ]_vars

\* A view_search_results message was handled while a search with results
\* was stored: the results are still there and the view is the search.
C27_Witness ==
  /\ FromClient("view_search_results")
  /\ ui_handled
  /\ ui_state.query = "query"
  /\ Len(ui_state.results) = 5
  /\ ui_state.current_job = None
  /\ job_search.current_job = "job_detail"

\* The client message types with a rule, and the backend events with one.
HasClientRule(m) ==
  m.type \in {"session.update", "reset_state", "manual_search", "select_job",
              "view_search_results"}
HasBackendRule(m) ==
  m.type \in {"session.created", "response.done"} \/ IsFunctionCallEvent(m)

\* C28: a decodable frame of a type without a rule is forwarded as it came:
\* the same text, one frame, nothing sent the other way, and the session's
\* pending calls, UI state and business logic untouched.  Stated for a
\* peer connection that is open.
C28_OtherTypesPassThrough ==
  /\ (msg_in.dir = "c2s" /\ msg_in.msg.json = "object"
        /\ ~HasClientRule(msg_in.msg) /\ server_ws = "open")
       => /\ to_server = << msg_in.msg >>
          /\ to_client = << >>
          /\ ~ui_handled
  /\ (msg_in.dir = "s2c" /\ msg_in.msg.json = "object"
        /\ ~HasBackendRule(msg_in.msg) /\ client_ws = "open")
       => /\ to_client = << msg_in.msg >>
          /\ to_server = << >>
          /\ invoked = << >>
          /\ pending_tools = pending_before

\* An audio delta of the backend went to the client as it came.
C28_Witness ==
  /\ msg_in.dir = "s2c"
  /\ msg_in.msg.type = "response.audio.delta"
  /\ client_ws = "open"
  /\ to_client = << msg_in.msg >>
  /\ to_client[1].enc = "raw"

\* The last step processed the event that announces a function call and
\* carries its preceding item id: conversation.item.created with a
\* function_call item, with a call id that is a string.
FunctionCallStart ==
  /\ FromBackend("conversation.item.created")
  /\ msg_in.msg.item_type = "function_call"
  /\ msg_in.msg.call_id \in CallIds

C30_RecordHoldsCurrentSnapshot ==
  saved = get_state(ui_state)

(* ------------------------------------------------------------------ *)
(* Order of the forwarded frames, undecodable frames                  *)
(* ------------------------------------------------------------------ *)
Directions == {"c2s", "s2c"}

\* The frames the relay does not forward.
Intercepted(d, m) ==
  /\ m.json = "object"
  /\ IF d = "c2s" THEN m.type \in ui_message_types ELSE IsFunctionCallEvent(m)

\* f is the frame a as it came, or a with its session or its output list
\* rewritten and serialised again.
IsForwardOf(f, a) ==
  \/ f = a
  \/ /\ f.enc = "dumps"
     /\ [f EXCEPT !.enc = a.enc, !.session = a.session, !.output = a.output] = a

\* C23: in each direction the forwarded frames are the arrived frames in
\* their order of arrival, without the intercepted ones and with a
\* rewritten frame at the place of its original: each forwarded frame comes
\* from one arrival, these arrivals are in increasing order, and every
\* arrival that is not intercepted was forwarded.  Both peers are open.
C23_ForwardedInArrivalOrder ==
  \A d \in Directions :
    /\ \A i \in 1..Len(forwards[d]) :
         /\ forwards[d][i].n \in 1..Len(arrivals[d])
         /\ IsForwardOf(forwards[d][i].msg, arrivals[d][forwards[d][i].n])
    /\ \A i, j \in 1..Len(forwards[d]) :
         i < j => forwards[d][i].n < forwards[d][j].n
    /\ \A n \in 1..Len(arrivals[d]) :
         (\E i \in 1..Len(forwards[d]) : forwards[d][i].n = n)
           <=> ~Intercepted(d, arrivals[d][n])

\* The client sent audio, a reset_state that was intercepted and a
\* session.update that was rewritten; the backend a response.done that was
\* rewritten and then an audio delta.
C23_Witness ==
  /\ Len(arrivals.c2s) = 3
  /\ arrivals.c2s[1].type = "input_audio_buffer.append"
  /\ arrivals.c2s[2].type = "reset_state"
  /\ arrivals.c2s[3].type = "session.update"
  /\ Len(forwards.c2s) = 2
  /\ forwards.c2s[1] = [n |-> 1, msg |-> arrivals.c2s[1]]
  /\ forwards.c2s[2].n = 3
  /\ forwards.c2s[2].msg.enc = "dumps"
  /\ Len(arrivals.s2c) = 2
  /\ arrivals.s2c[1].type = "response.done"
  /\ arrivals.s2c[2].type = "response.audio.delta"
  /\ Len(forwards.s2c) = 2
  /\ forwards.s2c[1].msg.output = <<"message", "audio">>
  /\ forwards.s2c[2] = [n |-> 2, msg |-> arrivals.s2c[2]]

\* C25: a frame that is no JSON goes to the other side as the text that
\* came, as one frame, changes nothing in the session, and the pump that
\* read it is still running.  Stated for a peer connection that is open.
C25_UndecodableForwardedUnchanged ==
  /\ (msg_in.dir = "c2s" /\ msg_in.msg.json = "bad" /\ server_ws = "open")
       => /\ to_server = << msg_in.msg >>
          /\ to_server[1].enc = "raw"
          /\ ~ui_handled
          /\ c2s = "run"
  /\ (msg_in.dir = "s2c" /\ msg_in.msg.json = "bad" /\ client_ws = "open")
       => /\ to_client = << msg_in.msg >>
          /\ to_client[1].enc = "raw"
          /\ to_server = << >>
          /\ pending_tools = pending_before
          /\ s2c = "run"

\* An undecodable client frame was forwarded and the next client frame
\* after it was forwarded too; the last step forwarded an undecodable
\* backend frame.
C25_Witness ==
  /\ Len(forwards.c2s) = 2
  /\ forwards.c2s[1].msg.json = "bad"
  /\ forwards.c2s[2].msg.type = "input_audio_buffer.append"
  /\ msg_in.dir = "s2c"
  /\ msg_in.msg.json = "bad"
  /\ to_client = << msg_in.msg >>

\* C24: an error of the store during a get, a save, a delete or a listing
\* is never raised out of a session operation: get_or_create_session still
\* returns a session that is cached under the id, the save and the delete
\* report the failure by their value, and the handler goes on to serve the
\* connection.
C24_StoreErrorsNeverRaised ==
  last_op.op # "none" =>
    /\ ~last_op.raised
    /\ ~last_op.up =>
         /\ last_op.op = "accept" =>
              /\ conns[last_op.conn].pc = "preparing"
              /\ conns[last_op.conn].session # 0
              /\ _MEMORY_CACHE[last_op.sid] = conns[last_op.conn].session
              /\ sessions[conns[last_op.conn].session].session_id = last_op.sid
         /\ last_op.op \in {"attach", "finish", "cleanup_session"} =>
              last_op.value = FALSE
         /\ last_op.op = "attach" =>
              /\ conns[last_op.conn].pc = "attached"
              /\ conns[last_op.conn].ws = "open"
         /\ last_op.op = "sweep" => last_op.value = {}

\* C24 happens: a session that was created and attached while the store
\* could not be reached, and has no record there.
C24_Witness ==
  /\ last_op.op = "attach"
  /\ ~last_op.up
  /\ conns[last_op.conn].pc = "attached"
  /\ last_op.sid \notin redis.keys
  /\ _MEMORY_CACHE[last_op.sid] = conns[last_op.conn].session

\* C21: right after a pass of periodic_session_cleanup the cache has no id
\* the store does not consider active, and the cache entries of the ids the
\* store still considers active are the ones it had before the pass.
C21_SweepKeepsActiveOnly ==
  last_op.op = "sweep" =>
    /\ \A sid \in SessionIds : _MEMORY_CACHE[sid] # 0 => sid \in redis.active
    /\ \A sid \in SessionIds :
         (last_op.cache_before[sid] # 0 /\ sid \in redis.active)
           => _MEMORY_CACHE[sid] = last_op.cache_before[sid]

(* ------------------------------------------------------------------ *)
(* Isolation of the sessions                                          *)
(* ------------------------------------------------------------------ *)

\* C22: a step of one session (a frame, with the tool call or the error it
\* leads to, a connect, a disconnect) leaves every other session's objects
\* (pending map, UI state, connection handle, listeners), cache entry,
\* record and connections as they were, and sends no frame on a connection
\* of another session.
C22_SessionsIsolated ==
  [][ \A other \in SessionIds \ {last_op'.sid} :
        /\ _MEMORY_CACHE'[other] = _MEMORY_CACHE[other]
        /\ (other \in redis'.keys) = (other \in redis.keys)
        /\ \A i \in 1..Len(sessions) :
             sessions[i].session_id = other => sessions'[i] = sessions[i]
        /\ \A c \in ConnIds : conns[c].sid = other => conns'[c] = conns[c]
        /\ last_op'.op = "frame" =>
             \A c \in last_op'.sent_on : conns[c].sid # other ]_vars

\* C22 happens: both sessions have a connection relaying, a search of
\* sid_1 just changed its UI state and notified its client, and sid_2 has a
\* pending call and its initial UI state.
C22_Witness ==
  /\ last_op.op = "frame"
  /\ last_op.sid = "sid_1"
  /\ last_op.sent_on # {}
  /\ _MEMORY_CACHE["sid_1"] # 0
  /\ _MEMORY_CACHE["sid_2"] # 0
  /\ sessions[_MEMORY_CACHE["sid_1"]].ui_state # InitialUIState
  /\ sessions[_MEMORY_CACHE["sid_2"]].ui_state = InitialUIState
  /\ sessions[_MEMORY_CACHE["sid_2"]].pending_tools # EmptyPending
  /\ \E c \in ConnIds : conns[c].sid = "sid_2" /\ conns[c].pc = "forwarding"

(* ------------------------------------------------------------------ *)
(* Persist and restore                                                *)
(* ------------------------------------------------------------------ *)

\* The UI state a ui_state_data snapshot describes.
SnapshotState(data) ==
  [ query |-> data.query, country |-> data.country,
    has_results |-> data.has_results, results |-> data.results,
    total_count |-> data.total_count, current_job |-> data.current_job,
    view_mode |-> data.view_mode ]

\* The JobSearchTool fields a record holds.
RecordJobSearch(rec) ==
  [ current_job |-> rec.js_current_job, search_query |-> rec.js_search_query,
    search_country |-> rec.js_search_country ]

\* C31: when get_or_create_session has found no cached session but a record,
\* the session it returns has the UI state and the JobSearchTool fields of
\* the record, no pending call and no connection handle, whatever pending
\* ids the record lists, and it is the cached session of the id.
C31_LoadedSessionIsTheRecord ==
  (last_op.op = "accept" /\ last_op.loaded) =>
    LET s == sessions[last_op.value]
    IN  /\ s.ui_state = SnapshotState(last_op.record.ui)
        /\ s.job_search = RecordJobSearch(last_op.record)
        /\ s.pending_tools = EmptyPending
        /\ s.client_ws = None
        /\ _MEMORY_CACHE[last_op.sid] = last_op.value

\* C39: for every session, the session load_from_redis builds from the
\* record save_to_redis writes for it has the same UI snapshot and the same
\* JobSearchTool fields.
C39_SaveLoadRoundTrip ==
  \A i \in 1..Len(sessions) :
    LET s == sessions[i]
        l == load_from_redis(session_data(s.ui_state, s.job_search, s.pending_tools))
    IN  /\ l.loaded
        /\ get_state(l.ui) = get_state(s.ui_state)
        /\ l.js = s.job_search

\* C38: in every UI state of a session, restored ones included, the view
\* mode "detail" comes with a current job.
C38_DetailHasCurrentJob ==
  \A i \in 1..Len(sessions) :
    sessions[i].ui_state.view_mode = "detail"
      => sessions[i].ui_state.current_job # None

(* ------------------------------------------------------------------ *)
(* search_jobs                                                        *)
(* ------------------------------------------------------------------ *)

C40_FirstFrameIsUiState ==
  /\ \A c \in ConnIds :
       /\ conns[c].pc \in {"attached", "forwarding", "finally", "done"}
            => conns[c].first.type = "ui_state_update"
       /\ conns[c].first.type \in {"none", "ui_state_update"}
  /\ last_op.op = "attach" =>
       conns[last_op.conn].first =
         UiStateUpdate(get_state(sessions[conns[last_op.conn].session].ui_state))

\* C40 happens: a backend frame was just forwarded on a connection whose
\* first frame was the snapshot of a session that had search results.
C40_Witness ==
  /\ last_op.op = "frame"
  /\ last_op.dir = "s2c"
  /\ last_op.conn \in last_op.sent_on
  /\ conns[last_op.conn].first.type = "ui_state_update"
  /\ conns[last_op.conn].first.data.has_results

(* ------------------------------------------------------------------ *)
(* Listeners and pending calls over the connections of a session      *)
(* ------------------------------------------------------------------ *)

\* C34: for every session, the registered UI listeners are exactly the
\* listeners of the client connections on it whose handler has attached
\* and not returned yet; a connection whose handler has returned has no
\* listener left.
C34_ListenersAreOpenConnections ==
  \A i \in 1..Len(sessions) :
    NotifiedConnections(sessions[i]) =
      { c \in ConnIds : /\ conns[c].session = i
                        /\ conns[c].pc \in {"attached", "forwarding", "finally"} }

\* C35: when _forward_messages of a connection has opened its upstream
\* connection, the pending map of the connection's session is empty.
C35_PendingEmptyAtRelayStart ==
  (last_op.op = "forward_start" /\ conns[last_op.conn].outcome = "connected")
    => sessions[conns[last_op.conn].session].pending_tools = EmptyPending

(* ------------------------------------------------------------------ *)
(* Deletion of a session                                              *)
(* ------------------------------------------------------------------ *)

\* The step is a call of get_or_create_session(sid): the provider call of
\* an accepted request or of a frame.
CallsGetOrCreate(sid) ==
  /\ last_op' # last_op
  /\ last_op'.op \in {"accept", "frame"}
  /\ last_op'.sid = sid

\* cleanup_session(sid) has run on a session that existed, and
\* get_or_create_session(sid) has not been called since: the id has session
\* objects, but neither a cache entry nor a store record.
Deleted(sid) ==
  /\ ObjectsOf(sid) # {}
  /\ _MEMORY_CACHE[sid] = 0
  /\ sid \notin redis.keys

\* C36: once cleanup_session(sid) has removed the cache entry and the store
\* record of a session, neither reappears by any step that is not a call of
\* get_or_create_session(sid), the teardown of the connection that was live
\* at the deletion included.
C36_DeletedStaysDeleted ==
  [][ \A sid \in SessionIds :
        (Deleted(sid) /\ ~CallsGetOrCreate(sid))
          => (_MEMORY_CACHE'[sid] = 0 /\ sid \notin redis'.keys) ]_vars

(* ------------------------------------------------------------------ *)
(* Frames of an open connection while sessions are deleted and swept  *)
(* ------------------------------------------------------------------ *)

\* The number of session objects up to which deletions and sweeps are
\* explored; every eviction lets the next provider call build one more.
MaxSessions == 3

\* Frames of a client and of the backend that the evicted-session runs
\* relay: a reset, a manual search, an announced tool call.
EvictClientMessages ==
  { [Frame0 EXCEPT !.type = UI_RESET_STATE],
    [Frame0 EXCEPT !.type = UI_MANUAL_SEARCH, !.data = "full", !.api = "ok"] }

EvictBackendMessages ==
  { [Frame0 EXCEPT !.type = CONVERSATION_ITEM_CREATED, !.item_type = FUNCTION_CALL,
                   !.call_id = "call_1", !.prev = "item_1"] }

\* One connection of session sid_1 relaying frames while the DELETE
\* endpoint, the periodic sweep and key expiry run.
NextEvict ==
  \/ Accept("conn_1", "sid_1", TRUE)
  \/ Attach("conn_1", TRUE)
  \/ ForwardStart("conn_1", "connected")
  \/ \E m \in EvictClientMessages : SessionFrame("conn_1", "c2s", m)
  \/ \E m \in EvictBackendMessages : SessionFrame("conn_1", "s2c", m)
  \/ ForwardEnds("conn_1")
  \/ Finish("conn_1", TRUE)
  \/ Len(sessions) < MaxSessions /\ \E sid \in SessionIds : Cleanup(sid, TRUE)
  \/ CloseTask("conn_1")
  \/ /\ Len(sessions) < MaxSessions
     /\ \E expired \in SUBSET SessionIds, up \in BOOLEAN : Sweep(expired, up)
  \/ \E sid \in SessionIds : KeyExpires(sid)

SpecEvict == Init /\ [][NextEvict]_vars

\* C37: every frame of a connection is processed on the Session object the
\* connection was accepted with, the one that holds its handle and its
\* listener.
C37_FramesUseTheRegisteredSession ==
  last_op.op = "frame" => last_op.value = conns[last_op.conn].session

(* ------------------------------------------------------------------ *)
(* Tool handlers and the event loop                                   *)
(* ------------------------------------------------------------------ *)

\* The event loop's thread is not inside a tool handler.  The handlers are
\* coroutines without an await: _search_jobs and _display_job call
\* JobSearch.search_jobs and find_and_display_job, whose _make_api_request
\* is the synchronous requests.get; until it returns, the thread of
\* web.run_app runs no other coroutine.
LoopFree == \A c \in ConnIds : conns[c].pc # "handler"

\* Client frames relayed while handlers run.
BlockingClientMessages ==
  { [Frame0 EXCEPT !.type = INPUT_AUDIO_BUFFER_APPEND],
    [Frame0 EXCEPT !.type = UI_RESET_STATE] }

\* Backend frames that announce a tool call.
BlockingBackendMessages ==
  { [Frame0 EXCEPT !.type = CONVERSATION_ITEM_CREATED, !.item_type = FUNCTION_CALL,
                   !.call_id = "call_1", !.prev = "item_1"] }

\* Backend frames that complete a tool call with arguments on which the
\* handler reaches its API request.
HandlerMessages ==
  { [Frame0 EXCEPT !.type = RESPONSE_OUTPUT_DONE, !.item_type = FUNCTION_CALL,
                   !.call_id = "call_1", !.name = "search_jobs",
                   !.args = "valid", !.api = api] : api \in {"ok", "fail"} }

\* _process_message_to_client up to the handler's requests.get: the call is
\* pending on the connection's session and its tool is registered.
HandlerStart(c, msg) ==
  /\ conns[c].pc = "forwarding"
  /\ conns[c].ws = "open"
  /\ _MEMORY_CACHE[conns[c].sid] # 0
  /\ msg.call_id \in DOMAIN sessions[_MEMORY_CACHE[conns[c].sid]].pending_tools
  /\ msg.name \in ToolNames
  /\ conns' = [conns EXCEPT ![c].pc = "handler"]
  /\ last_op' = [op |-> "handler_start", conn |-> c, sid |-> conns[c].sid,
                 up |-> TRUE, raised |-> FALSE, value |-> None, msg |-> msg]
  /\ UNCHANGED <<_MEMORY_CACHE, sessions, redis, closing, evicted>>
  /\ session_layer_unchanged

\* requests.get returns and the frame's processing runs to its end.
HandlerReturn(c) ==
  /\ conns[c].pc = "handler"
  /\ last_op.op = "handler_start"
  /\ last_op.conn = c
  /\ SessionFrameStep(c, "s2c", last_op.msg, [conns EXCEPT ![c].pc = "forwarding"])

\* A client frame of connection c, taken up by the event loop.
LoopClientFrame(c, m) == LoopFree /\ SessionFrame(c, "c2s", m)

\* Two connections of two sessions relaying frames and tool calls on the
\* one event loop.
NextBlocking ==
  \/ LoopFree /\ \E c \in ConnIds, sid \in SessionIds : Accept(c, sid, TRUE)
  \/ LoopFree /\ \E c \in ConnIds : Attach(c, TRUE)
  \/ LoopFree /\ \E c \in ConnIds : ForwardStart(c, "connected")
  \/ \E c \in ConnIds, m \in BlockingClientMessages : LoopClientFrame(c, m)
  \/ LoopFree /\ \E c \in ConnIds, m \in BlockingBackendMessages :
                   SessionFrame(c, "s2c", m)
  \/ LoopFree /\ \E c \in ConnIds, m \in HandlerMessages : HandlerStart(c, m)
  \/ \E c \in ConnIds : HandlerReturn(c)

SpecBlocking == Init /\ [][NextBlocking]_vars

\* C32: while a tool handler of one session runs, a client frame of a
\* relaying connection of another session can be processed.
C32_OtherSessionsProceedDuringHandler ==
  \A c, d \in ConnIds :
    ( /\ conns[c].pc = "handler"
      /\ conns[d].pc = "forwarding"
      /\ conns[d].ws = "open"
      /\ conns[d].sid # conns[c].sid )
      => ENABLED (\E m \in BlockingClientMessages : LoopClientFrame(d, m))
====
